---- MODULE Spec2Model ----
(***************************************************************************)
(* Offer lifecycle reconciliation of UltimaOfferta-Backend-NodeJS: the     *)
(* POST /manage-offer handler (routes/manageOffer.js), the datastore       *)
(* helpers it calls (services/postgres.js, services/firestore.js) and the  *)
(* notification fan-out / retraction it drives (services/notifications.js).*)
(*                                                                         *)
(* Time is counted in days: Date.now() is the variable now, and the        *)
(* 7 * 24 * 60 * 60 * 1000 ms of deleteAtPlusDays / the 7-day interval of  *)
(* hasOfferBeenNotified are 7 units.  A JS value that may be undefined is  *)
(* a sequence of length 0 (undefined) or 1 (the value).                    *)
(***************************************************************************)
EXTENDS Integers, Sequences, FiniteSets, TLC

VARIABLES
    offers,               \* table "offers": a set of rows
    favorites,            \* table "favorites": a set of [uid, key, type]
    notifications,        \* table "notifications": a set of [id, offer_id, created_at]
    users_notifications,  \* table "users_notifications" (receipts)
    notifSeq,             \* serial of notifications.id
    users,                \* table "users": uid -> [token_fcm, superoffers, ...]
    now,                  \* Date.now() / now(), in days
    request,              \* req.body of the /manage-offer call in flight
    response,             \* what the handler answered and did for it
    inflight              \* the /manage-offer calls that run concurrently

vars == <<offers, favorites, notifications, users_notifications, notifSeq,
          users, now, request, response, inflight>>

----------------------------------------------------------------------------
(* Bounds of the model *)

MaxNow == 7
MaxNotifSeq == 1
MaxFavorites == 1
MaxFaults == 1

----------------------------------------------------------------------------
(* Optional values *)

None == <<>>
Some(v) == <<v>>
IsSome(m) == m # <<>>
Get(m) == m[1]
\* JS: Number(v) of a value that is null (<<>>) or a number (<<n>>)
Number(v) == IF v = <<>> THEN 0 ELSE v[1]
\* JS: m ?? d
OrElse(m, d) == IF m = <<>> THEN d ELSE m[1]
\* JS truthiness of an optional boolean: (m ?? false)
Truthy(m) == m # <<>> /\ m[1] = TRUE
\* JS truthiness of an optional number: undefined and 0 are falsy
TruthyNum(m) == m # <<>> /\ m[1] # 0

----------------------------------------------------------------------------
(* Input domains *)

Users == {"u1", "u2"}
OfferIds == {"o1", "o2"}
Codes == {"c1"}
HighChannel1 == "-1001305107383"
HighChannel2 == "-1001207516682"
OtherChannel == "-1001000000000"
SKIP_CHANNELS == {"-1003191179900", "-1002335639614", "-1001313053355"}
ChannelIds == {HighChannel1, HighChannel2, OtherChannel}
EventTimestamp == 3

UserOrder == <<"u1", "u2">>
FavoriteUsers == {"u1"}

\* A list of the users of set S (the order of rows a SELECT returns)
RECURSIVE SeqOfUsers(_, _)
SeqOfUsers(S, i) ==
    IF i > Len(UserOrder) THEN <<>>
    ELSE (IF UserOrder[i] \in S THEN <<UserOrder[i]>> ELSE <<>>) \o SeqOfUsers(S, i + 1)

----------------------------------------------------------------------------
(* utils.js *)

toBool(m) == m # <<>> /\ m[1] = TRUE

DeleteAfterDays == 7

deleteAtPlusDays == now + DeleteAfterDays

nowMs == now

----------------------------------------------------------------------------
(* routes/manageOffer.js: getChannelPriority *)

\* A priority table that forgot the second named channel's own tier
getChannelPriority_TwoTiers(id) ==
    CASE id = "-1001305107383" -> 1
      [] OTHER -> 2

getChannelPriority(id) ==
    CASE id = "-1001305107383" -> 1
      [] id = "-1001207516682" -> 2
      [] OTHER -> 3

\* An arbiter that lets only a strictly higher priority overwrite
mayOverwrite_Strict(newPriority, existingPriority) == newPriority < existingPriority

\* The arbiter's comparison, written inline in the handler as
\* newPriority <= existingPriority (or its negation newPriority > existingPriority)
mayOverwrite(newPriority, existingPriority) == newPriority <= existingPriority

----------------------------------------------------------------------------
(* services/postgres.js: the offers table *)

\* A lookup that never finds the row
getOfferByCode_NotFound(code) == {None}

\* SELECT * FROM offers WHERE code = $1 ORDER BY timestamp DESC LIMIT 1.
\* The row timestamp is not part of the model: when several rows carry the
\* code, any of them may be the one returned.
getOfferByCode(code) ==
    LET rows == {r \in offers : r.code = code}
    IN  IF rows = {} THEN {None} ELSE {Some(r) : r \in rows}

\* The columns of the offers table that the model keeps
buildRowFromPost(post) ==
    [offer_id          |-> post.offer_id,
     code              |-> Some(post.code),
     channel_id        |-> post.channel_id,
     is_expired        |-> IF IsSome(post.is_expired) THEN Some(toBool(post.is_expired)) ELSE None,
     is_deleted        |-> IF IsSome(post.is_deleted) THEN Some(toBool(post.is_deleted)) ELSE None,
     timestamp_expired |-> post.timestamp_expired,
     price_numeric     |-> post.price_numeric]

\* INSERT: a column the row does not name takes the column default (NULL);
\* a NULL flag reads as false through toBool, a NULL channel as ''.
\* price_numeric of a row object: absent (<<>>), null (<< <<>> >>) or a
\* number (<< <<n>> >>); the column holds NULL (<<>>) or the number (<<n>>).
InsertedRow(row) ==
    [offer_id          |-> row.offer_id,
     code              |-> OrElse(row.code, ""),
     channel_id        |-> OrElse(row.channel_id, ""),
     is_expired        |-> OrElse(row.is_expired, FALSE),
     is_deleted        |-> OrElse(row.is_deleted, FALSE),
     timestamp_expired |-> row.timestamp_expired,
     price_numeric     |-> IF IsSome(row.price_numeric) THEN Get(row.price_numeric) ELSE None]

\* An UPDATE that leaves the expiry column alone
UpdatedRow_KeepsExpiry(r, row) ==
    [offer_id          |-> r.offer_id,
     code              |-> OrElse(row.code, r.code),
     channel_id        |-> OrElse(row.channel_id, r.channel_id),
     is_expired        |-> OrElse(row.is_expired, r.is_expired),
     is_deleted        |-> OrElse(row.is_deleted, r.is_deleted),
     timestamp_expired |-> r.timestamp_expired,
     price_numeric     |-> IF IsSome(row.price_numeric) THEN Get(row.price_numeric)
                           ELSE r.price_numeric]

\* UPDATE ... SET <every column of row but offer_id> WHERE offer_id = $n
UpdatedRow(r, row) ==
    [offer_id          |-> r.offer_id,
     code              |-> OrElse(row.code, r.code),
     channel_id        |-> OrElse(row.channel_id, r.channel_id),
     is_expired        |-> OrElse(row.is_expired, r.is_expired),
     is_deleted        |-> OrElse(row.is_deleted, r.is_deleted),
     timestamp_expired |-> IF IsSome(row.timestamp_expired) THEN row.timestamp_expired
                           ELSE r.timestamp_expired,
     price_numeric     |-> IF IsSome(row.price_numeric) THEN Get(row.price_numeric)
                           ELSE r.price_numeric]

insertOrUpdateOffer(offs, row) ==
    IF \A r \in offs : r.offer_id # row.offer_id
    THEN offs \cup {InsertedRow(row)}
    ELSE {IF r.offer_id = row.offer_id THEN UpdatedRow(r, row) ELSE r : r \in offs}

markOfferDeleted(offs, id, deleteTs) ==
    {IF r.offer_id = id
     THEN [r EXCEPT !.is_deleted = TRUE, !.is_expired = TRUE,
                    !.timestamp_expired = Some(OrElse(deleteTs, nowMs))]
     ELSE r : r \in offs}

\* A removal that removes nothing
hardDeleteOffer_Keeps(offs, id) == offs

hardDeleteOffer(offs, id) == {r \in offs : r.offer_id # id}

----------------------------------------------------------------------------
(* services/firestore.js *)

\* SELECT DISTINCT uid FROM favorites WHERE type = 'offer' AND key IN (...);
\* a failed query is caught and answers []
findFavoritersByOffer(offerId, altOfferId, fail) ==
    LET keys == {offerId} \cup (IF IsSome(altOfferId) THEN {Get(altOfferId)} ELSE {})
    IN  IF fail THEN {}
        ELSE {f.uid : f \in {g \in favorites : g.type = "offer" /\ g.key \in keys}}

NotifiedLookbackDays == 7

\* SELECT 1 FROM notifications WHERE offer_id = $1
\*   AND created_at > (now() - interval '7 days'); a failed query answers false
hasOfferBeenNotified(notifs, offerId, fail) ==
    IF fail THEN FALSE
    ELSE \E n \in notifs : n.offer_id = offerId /\ n.created_at > now - NotifiedLookbackDays

\* getUserPreferences + shouldSendNotification(prefs, 'product')
shouldSendNotification(uid, matchType) ==
    LET superOffers == users[uid].superoffers
        favProducts == users[uid].favorites_products
        favSearches == users[uid].favorites_searches
        favoritesEnabled == favProducts \/ favSearches
        pushEnabled == superOffers \/ favoritesEnabled
    IN  /\ pushEnabled
        /\ favoritesEnabled
        /\ IF matchType = "product" THEN favProducts ELSE favSearches

----------------------------------------------------------------------------
(* What one handling of an event has done so far: the tables as it leaves  *)
(* them, the service calls it made (in order), the messages delivered, the *)
(* options of its notifyUsersAboutOffer calls (in order) and whether an    *)
(* error was thrown that nothing has caught yet.                           *)

St0 ==
    [offers              |-> offers,
     notifications       |-> notifications,
     users_notifications |-> users_notifications,
     notifSeq            |-> notifSeq,
     calls               |-> <<>>,
     sent                |-> {},
     dispatched          |-> <<>>,
     thrown              |-> FALSE]

Call(st, name) == [st EXCEPT !.calls = Append(@, name)]

\* The options object of notifyUsersAboutOffer: { useHeartTitle,
\* isAvailableAgain, reasonByUid }; reasonByUid is kept as "was it given"
NoOptions == [useHeartTitle |-> FALSE, isAvailableAgain |-> FALSE, reasonByUid |-> FALSE]

AvailableAgainOptions == [useHeartTitle |-> TRUE, isAvailableAgain |-> TRUE, reasonByUid |-> FALSE]

PriceDropOptions == [useHeartTitle |-> TRUE, isAvailableAgain |-> FALSE, reasonByUid |-> FALSE]

KeywordOptions == [useHeartTitle |-> TRUE, isAvailableAgain |-> FALSE, reasonByUid |-> TRUE]

----------------------------------------------------------------------------
(* services/postgres.js + services/notifications.js: retraction *)

\* A SELECT that has lost its filter on withdrawn
WithdrawRows_IncludesWithdrawn(st, offerId) ==
    {un \in st.users_notifications :
        \E n \in st.notifications : n.id = un.notification_id /\ n.offer_id = offerId}

\* The receipts the SELECT of withdrawNotificationsForOffer returns
WithdrawRows(st, offerId) ==
    {un \in st.users_notifications :
        /\ ~un.withdrawn
        /\ \E n \in st.notifications : n.id = un.notification_id /\ n.offer_id = offerId}

\* An UPDATE that also sets the read flag of the receipts it withdraws
withdrawNotificationsForOffer_MarksRead(st, offerId, fail) ==
    LET rows == WithdrawRows(st, offerId)
        notificationIds == {r.notification_id : r \in rows}
    IN  IF fail
        THEN [success |-> FALSE, updated |-> 0, rows |-> {}, st |-> st]
        ELSE [success |-> TRUE,
              updated |-> Cardinality(notificationIds),
              rows    |-> rows,
              st      |-> [st EXCEPT !.users_notifications =
                              {IF un.notification_id \in notificationIds
                               THEN [un EXCEPT !.withdrawn = TRUE, !.read = TRUE]
                               ELSE un : un \in @}]]

\* UPDATE users_notifications SET withdrawn = true WHERE notification_id =
\* ANY(the ids of the rows selected); a failed query answers success: false
withdrawNotificationsForOffer(st, offerId, fail) ==
    LET rows == WithdrawRows(st, offerId)
        notificationIds == {r.notification_id : r \in rows}
    IN  IF fail
        THEN [success |-> FALSE, updated |-> 0, rows |-> {}, st |-> st]
        ELSE [success |-> TRUE,
              updated |-> Cardinality(notificationIds),
              rows    |-> rows,
              st      |-> [st EXCEPT !.users_notifications =
                              {IF un.notification_id \in notificationIds
                               THEN [un EXCEPT !.withdrawn = TRUE] ELSE un : un \in @}]]

\* result: <<>> when the function throws (the ReferenceError on tokens.length
\* of the partial-failure log line), else the {updated, sent} it returns
withdrawOfferNotifications(st, offerId, env) ==
    LET res == withdrawNotificationsForOffer(Call(st, "withdrawOfferNotifications"), offerId, env.wdFail)
        recipients == {r \in res.rows : users[r.uid].token_fcm}
        delivered == {r \in recipients : r.uid \in env.sendOk}
        failureCount == Cardinality(recipients \ delivered)
    IN  IF ~res.success
        THEN [st |-> res.st, result |-> Some([updated |-> 0, sent |-> 0])]
        ELSE IF ~env.creds
        THEN [st |-> res.st, result |-> Some([updated |-> res.updated, sent |-> 0])]
        ELSE [st |-> [res.st EXCEPT !.sent = @ \cup
                         {[kind |-> "retract", uid |-> r.uid,
                           notification_id |-> r.notification_id, n |-> r.n,
                           options |-> NoOptions] : r \in delivered}],
              result |-> IF failureCount > 0 THEN None
                         ELSE Some([updated |-> res.updated, sent |-> Cardinality(delivered)])]

\* A handler that never retracts
withdrawNotificationsSafe_Never(st, offerId, env) == st

\* routes/manageOffer.js: withdrawNotificationsSafe swallows the error
withdrawNotificationsSafe(st, offerId, env) ==
    IF offerId = "" THEN st ELSE withdrawOfferNotifications(st, offerId, env).st

----------------------------------------------------------------------------
(* services/notifications.js: fan-out *)

\* createFirestoreNotificationDoc: one notifications row per notified user.
\* The rows of one call differ only in uid and type, which nothing reads:
\* the model keeps them as one row, with id 0 (no receipt refers to it).
createFirestoreNotificationDoc(st, offerId) ==
    [st EXCEPT !.notifications = @ \cup {[id |-> 0, offer_id |-> offerId, created_at |-> now]}]

\* A dispatcher in which one failed send spoils the dispatch: nobody gets
\* a receipt unless every send succeeded
notifyUsersAboutOffer_AllOrNothing(st, userIds, offerId, env, options) ==
    LET notificationId == st.notifSeq + 1
        st1 == [Call(st, "notifyUsersAboutOffer") EXCEPT
                   !.dispatched = Append(@, options),
                   !.notifSeq = notificationId,
                   !.notifications = @ \cup
                       {[id |-> notificationId, offer_id |-> offerId, created_at |-> now]}]
        notified == {i \in 1..Len(userIds) :
                        /\ shouldSendNotification(userIds[i], "product")
                        /\ users[userIds[i]].token_fcm
                        /\ userIds[i] \in env.sendOk}
        st2 == [st1 EXCEPT !.sent = @ \cup
                   {[kind |-> "push", uid |-> userIds[i],
                     notification_id |-> notificationId, n |-> i,
                     options |-> options] : i \in notified}]
    IN  IF notified # 1..Len(userIds) THEN st2
        ELSE [createFirestoreNotificationDoc(st2, offerId) EXCEPT
                 !.users_notifications = @ \cup
                     {[uid |-> userIds[i], notification_id |-> notificationId,
                       withdrawn |-> FALSE, read |-> FALSE, n |-> i] : i \in notified}]

\* notifyUsersAboutOffer: the INSERT of the notifications row is in a
\* try/catch, a failure leaves notificationId null (0 here) and the receipts
\* are then skipped; every send is a task of its own with its own try/catch.
notifyUsersAboutOffer(st, userIds, offerId, env, options) ==
    LET inserted == ~env.notifInsertFail
        notificationId == IF inserted THEN st.notifSeq + 1 ELSE 0
        st1 == [Call(st, "notifyUsersAboutOffer") EXCEPT
                   !.dispatched = Append(@, options),
                   !.notifSeq = IF inserted THEN notificationId ELSE @,
                   !.notifications = IF inserted
                       THEN @ \cup {[id |-> notificationId, offer_id |-> offerId,
                                     created_at |-> now]}
                       ELSE @]
        notified == {i \in 1..Len(userIds) :
                        /\ shouldSendNotification(userIds[i], "product")
                        /\ users[userIds[i]].token_fcm
                        /\ userIds[i] \in env.sendOk}
        st2 == [st1 EXCEPT !.sent = @ \cup
                   {[kind |-> "push", uid |-> userIds[i],
                     notification_id |-> notificationId, n |-> i,
                     options |-> options] : i \in notified}]
    IN  IF notified = {} THEN st2
        ELSE IF ~inserted THEN createFirestoreNotificationDoc(st2, offerId)
        ELSE [createFirestoreNotificationDoc(st2, offerId) EXCEPT
                 !.users_notifications = @ \cup
                     {[uid |-> userIds[i], notification_id |-> notificationId,
                       withdrawn |-> FALSE, read |-> FALSE, n |-> i] : i \in notified}]

sendSuperOfferNotification(st, offerId, env) ==
    LET recipients == {u \in Users : users[u].superoffers /\ users[u].token_fcm}
        notified == {u \in recipients : u \in env.sendOk}
        st1 == [Call(st, "sendSuperOfferNotification") EXCEPT !.sent = @ \cup
                   {[kind |-> "superoffer", uid |-> u, notification_id |-> 0, n |-> 0,
                     options |-> NoOptions] : u \in notified}]
    IN  IF notified = {} THEN st1 ELSE createFirestoreNotificationDoc(st1, offerId)

----------------------------------------------------------------------------
(* routes/manageOffer.js: POST /manage-offer *)

\* A catch block that undoes the offer write of the failed handling
sendTelegramError_RollsBack(st) ==
    [Call(st, "sendTelegramError") EXCEPT
        !.thrown = FALSE,
        !.offers = offers,
        !.sent = @ \cup {[kind |-> "alert", uid |-> "", notification_id |-> 0, n |-> 0,
                          options |-> NoOptions]}]

\* services/telegram.js: sendTelegramError posts one message to the error
\* channel (the bot token and the channel are set) and swallows a failure
sendTelegramError(st) ==
    [Call(st, "sendTelegramError") EXCEPT
        !.thrown = FALSE,
        !.sent = @ \cup {[kind |-> "alert", uid |-> "", notification_id |-> 0, n |-> 0,
                          options |-> NoOptions]}]

\* purgeCache awaits fetch with no try around it: a rejected fetch is an
\* error that purgeAndLog lets through
purgeAndLog(st, env) ==
    IF env.purgeThrows THEN [Call(st, "purgeCache") EXCEPT !.thrown = TRUE]
    ELSE Call(st, "purgeCache")

\* A handler that also reports a rejected event to the error channel
Answer_AlertsClientErrors(st, status, action, reason) ==
    IF st.thrown \/ status >= 400
    THEN [st |-> sendTelegramError(st), status |-> IF st.thrown THEN 500 ELSE status,
          action |-> IF st.thrown THEN "" ELSE action,
          reason |-> IF st.thrown THEN "Internal error" ELSE reason]
    ELSE [st |-> st, status |-> status, action |-> action, reason |-> reason]

\* The answer of the handler: the res.status(...).json(...) of the branch,
\* or that of the catch block when an error was thrown on the way
Answer(st, status, action, reason) ==
    IF st.thrown
    THEN [st |-> sendTelegramError(st), status |-> 500, action |-> "", reason |-> "Internal error"]
    ELSE [st |-> st, status |-> status, action |-> action, reason |-> reason]

\* post.timestamp ? Number(post.timestamp) : null
PostTimestampOrNull(post) ==
    IF TruthyNum(post.timestamp) THEN Some(Get(post.timestamp)) ELSE None

\* c: the handler's locals (post, existing, docIdToUse, newPriority,
\* existingPriority, existingDocIsActive, superOfferNotify, env)

\* type === 'POST_CREATED', post.is_expired or post.is_deleted
CreatedExpiredOrDeleted(st, c) ==
    LET st1 == withdrawNotificationsSafe(st, c.docIdToUse, c.env)
        favoriters == findFavoritersByOffer(c.docIdToUse, None, c.env.favFail)
        notified == hasOfferBeenNotified(st1.notifications, c.docIdToUse, c.env.notifiedFail)
        st2 == Call(Call(st1, "findFavoritersByOffer"), "hasOfferBeenNotified")
    IN  IF mayOverwrite(c.newPriority, c.existingPriority)
        THEN IF favoriters # {}
             THEN Answer(purgeAndLog([Call(st2, "markOfferDeleted") EXCEPT !.offers =
                             markOfferDeleted(@, c.docIdToUse, PostTimestampOrNull(c.post))], c.env),
                         200, "ignored_deleted_because_in_favorites", "")
             ELSE IF notified
             THEN Answer(purgeAndLog([Call(st2, "markOfferDeleted") EXCEPT !.offers =
                             markOfferDeleted(@, c.docIdToUse, Some(deleteAtPlusDays))], c.env),
                         200, "soft_deleted", "")
             ELSE Answer(purgeAndLog([Call(st2, "hardDeleteOffer") EXCEPT !.offers =
                             hardDeleteOffer(@, c.docIdToUse)], c.env),
                         200, "deleted_via_create", "")
        ELSE Answer(st1, 200, "delete_ignored", "")

\* A super-offer step that does not consult send_super_offers_notifications
SuperOfferStep_IgnoresSetting(st, c) ==
    IF c.superOfferNotify /\ c.env.creds
    THEN sendSuperOfferNotification(st, c.docIdToUse, c.env)
    ELSE st

\* the super-offer broadcast of both active branches
SuperOfferStep(st, c) ==
    IF c.superOfferNotify /\ c.env.creds /\ c.env.send_super_offers_notifications
    THEN sendSuperOfferNotification(st, c.docIdToUse, c.env)
    ELSE st

\* type === 'POST_CREATED', active post
CreatedActive(st, c) ==
    LET existing == c.existing
        st1 == SuperOfferStep(st, c)
        post == [c.post EXCEPT !.offer_id = IF IsSome(existing) THEN Get(existing).offer_id ELSE @]
        row == [buildRowFromPost(post) EXCEPT !.offer_id = c.docIdToUse]
        wasPreviouslyFlagged ==
            IF IsSome(existing) THEN Get(existing).is_expired \/ Get(existing).is_deleted ELSE FALSE
        isNowAvailable == ~Truthy(post.is_expired) /\ ~Truthy(post.is_deleted)
        favoriters == findFavoritersByOffer(c.docIdToUse, Some(post.offer_id), c.env.favFail)
        st2 == IF IsSome(existing) /\ wasPreviouslyFlagged /\ isNowAvailable
               THEN IF favoriters # {} /\ c.env.creds /\ c.env.send_favorites_notifications
                    THEN notifyUsersAboutOffer(Call(st1, "findFavoritersByOffer"),
                                               SeqOfUsers(favoriters, 1), c.docIdToUse, c.env,
                                               AvailableAgainOptions)
                    ELSE Call(st1, "findFavoritersByOffer")
               ELSE st1
        st3 == purgeAndLog([Call(st2, "insertOrUpdateOffer") EXCEPT !.offers =
                               insertOrUpdateOffer(@, row)], c.env)
        keywordUids == c.env.keywordUids
        st4 == IF st3.thrown THEN st3
               ELSE IF IsSome(post.title) /\ c.env.creds
               THEN IF Len(keywordUids) > 0 /\ c.env.send_favorites_notifications
                    THEN notifyUsersAboutOffer(Call(st3, "findUsersWithMatchingKeywords"),
                                               keywordUids, c.docIdToUse, c.env, KeywordOptions)
                    ELSE Call(st3, "findUsersWithMatchingKeywords")
               ELSE st3
    IN  IF IsSome(existing) /\ c.existingDocIsActive /\ ~mayOverwrite(c.newPriority, c.existingPriority)
        THEN Answer(st1, 200, "skipped", "lower_priority_channel")
        ELSE Answer(st4, 200, "created", "")

\* type === 'POST_EDITED', post.is_expired or post.is_deleted
EditedExpiredOrDeleted(st, c) ==
    LET st1 == withdrawNotificationsSafe(st, c.docIdToUse, c.env)
        favoriters == findFavoritersByOffer(c.docIdToUse, None, c.env.favFail)
        notified == hasOfferBeenNotified(st1.notifications, c.docIdToUse, c.env.notifiedFail)
        st2 == Call(Call(st1, "findFavoritersByOffer"), "hasOfferBeenNotified")
    IN  IF mayOverwrite(c.newPriority, c.existingPriority)
        THEN IF favoriters # {}
             THEN Answer(purgeAndLog([Call(st2, "markOfferDeleted") EXCEPT !.offers =
                             markOfferDeleted(@, c.docIdToUse, PostTimestampOrNull(c.post))], c.env),
                         200, "ignored_deleted_because_in_favorites", "")
             ELSE IF notified
             THEN Answer(purgeAndLog([Call(st2, "markOfferDeleted") EXCEPT !.offers =
                             markOfferDeleted(@, c.docIdToUse, Some(deleteAtPlusDays))], c.env),
                         200, "soft_deleted", "")
             ELSE Answer(purgeAndLog([Call(st2, "markOfferDeleted") EXCEPT !.offers =
                             markOfferDeleted(@, c.docIdToUse, Some(deleteAtPlusDays))], c.env),
                         200, "soft_deleted_via_edit", "")
        ELSE Answer(st1, 200, "delete_ignored", "")

\* type === 'POST_EDITED', active post
EditedActive(st, c) ==
    LET existing == c.existing
        st1 == SuperOfferStep(st, c)
        existingPrice == IF IsSome(existing) /\ TruthyNum(Get(existing).price_numeric)
                         THEN Get(existing).price_numeric ELSE None
        newPrice == IF IsSome(c.post.price_numeric)
                    THEN Some(Number(Get(c.post.price_numeric))) ELSE None
        wasPreviouslyFlagged ==
            IF IsSome(existing) THEN Get(existing).is_expired \/ Get(existing).is_deleted ELSE FALSE
        isNowAvailable == ~Truthy(c.post.is_expired) /\ ~Truthy(c.post.is_deleted)
        favoriters == findFavoritersByOffer(c.docIdToUse, Some(c.post.offer_id), c.env.favFail)
        maySend == favoriters # {} /\ c.env.creds /\ c.env.send_favorites_notifications
        st2 == IF wasPreviouslyFlagged /\ isNowAvailable /\ maySend
               THEN notifyUsersAboutOffer(Call(st1, "findFavoritersByOffer"),
                                          SeqOfUsers(favoriters, 1), c.docIdToUse, c.env,
                                          AvailableAgainOptions)
               ELSE Call(st1, "findFavoritersByOffer")
        st3 == IF /\ IsSome(existingPrice) /\ IsSome(newPrice)
                  /\ Get(newPrice) < Get(existingPrice) /\ maySend
               THEN notifyUsersAboutOffer(st2, SeqOfUsers(favoriters, 1), c.docIdToUse, c.env,
                                          PriceDropOptions)
               ELSE st2
        post1 == [c.post EXCEPT !.offer_id = IF IsSome(existing) THEN Get(existing).offer_id ELSE @]
        post == IF wasPreviouslyFlagged /\ isNowAvailable
                THEN [post1 EXCEPT !.is_deleted = Some(FALSE), !.is_expired = Some(FALSE),
                                   !.timestamp_expired = Some(-1)]
                ELSE post1
        row == [buildRowFromPost(post) EXCEPT !.offer_id = c.docIdToUse]
        st4 == purgeAndLog([Call(st3, "insertOrUpdateOffer") EXCEPT !.offers =
                               insertOrUpdateOffer(@, row)], c.env)
    IN  IF c.existingDocIsActive /\ ~mayOverwrite(c.newPriority, c.existingPriority)
        THEN Answer(st1, 200, "skipped", "lower_priority_on_edit")
        ELSE Answer(st4, 200, "edited", "")

\* type === 'POST_DELETED'
Deleted(st, c) ==
    LET st1 == withdrawNotificationsSafe(st, c.docIdToUse, c.env)
        favoriters == findFavoritersByOffer(c.docIdToUse, None, c.env.favFail)
        notified == hasOfferBeenNotified(st1.notifications, c.docIdToUse, c.env.notifiedFail)
        st2 == Call(Call(st1, "findFavoritersByOffer"), "hasOfferBeenNotified")
    IN  IF ~mayOverwrite(c.newPriority, c.existingPriority)
        THEN Answer(st1, 200, "skipped", "lower_priority_on_delete")
        ELSE IF favoriters # {}
        THEN Answer(purgeAndLog([Call(st2, "markOfferDeleted") EXCEPT !.offers =
                        markOfferDeleted(@, c.docIdToUse, PostTimestampOrNull(c.post))], c.env),
                    200, "soft_deleted", "")
        ELSE IF notified
        THEN Answer(purgeAndLog([Call(st2, "markOfferDeleted") EXCEPT !.offers =
                        markOfferDeleted(@, c.docIdToUse, Some(deleteAtPlusDays))], c.env),
                    200, "soft_deleted", "")
        ELSE Answer(purgeAndLog([Call(st2, "hardDeleteOffer") EXCEPT !.offers =
                        hardDeleteOffer(@, c.docIdToUse)], c.env),
                    200, "deleted", "")

\* A handler that keeps the offer_id the event reports
DocIdToUse_FromPost(post, existing) == post.offer_id

\* docIdToUse = existing ? existing.offer_id : post.offer_id
DocIdToUse(post, existing) ==
    IF IsSome(existing) THEN Get(existing).offer_id ELSE post.offer_id

\* Locals that take no existing row for an active one
Locals_ExistingNeverActive(post, existing, env) ==
    [post                |-> post,
     existing            |-> existing,
     env                 |-> env,
     newPriority         |-> getChannelPriority(OrElse(post.channel_id, "")),
     existingPriority    |-> IF IsSome(existing)
                             THEN getChannelPriority(Get(existing).channel_id) ELSE 3,
     existingDocIsActive |-> FALSE,
     docIdToUse          |-> DocIdToUse(post, existing),
     superOfferNotify    |-> post.super_offer_notify]

\* The locals the handler computes between the lookup and the dispatch
Locals(post, existing, env) ==
    [post                |-> post,
     existing            |-> existing,
     env                 |-> env,
     newPriority         |-> getChannelPriority(OrElse(post.channel_id, "")),
     existingPriority    |-> IF IsSome(existing)
                             THEN getChannelPriority(Get(existing).channel_id) ELSE 3,
     existingDocIsActive |-> IF IsSome(existing)
                             THEN ~Get(existing).is_expired /\ ~Get(existing).is_deleted
                             ELSE FALSE,
     docIdToUse          |-> DocIdToUse(post, existing),
     superOfferNotify    |-> post.super_offer_notify]

\* A handler that runs the POST_CREATED active path for POST_EDITED too
manageOffer_EditedAsCreated(req, existing, env) ==
    LET post == Get(req.post)
        channelId == OrElse(post.channel_id, "")
        c == Locals(post, existing, env)
        expiredOrDeleted == Truthy(post.is_expired) \/ Truthy(post.is_deleted)
    IN  IF ~env.accept_incoming_requests
        THEN Answer(St0, 200, "skipped_incoming_disabled", "")
        ELSE IF req.type = "" \/ req.post = None \/ (req.post # None /\ post.offer_id = "")
        THEN Answer(St0, 400, "", "Missing fields")
        ELSE IF post.is_explicit \/ channelId \in SKIP_CHANNELS \/ post.link_aod
        THEN Answer(St0, 200, "skipped", "")
        ELSE IF post.code = ""
        THEN Answer(St0, 400, "", "Missing code")
        ELSE IF req.type = "POST_CREATED"
        THEN IF expiredOrDeleted THEN CreatedExpiredOrDeleted(Call(St0, "getOfferByCode"), c)
             ELSE CreatedActive(Call(St0, "getOfferByCode"), c)
        ELSE IF req.type = "POST_EDITED"
        THEN IF expiredOrDeleted THEN EditedExpiredOrDeleted(Call(St0, "getOfferByCode"), c)
             ELSE CreatedActive(Call(St0, "getOfferByCode"), c)
        ELSE IF req.type = "POST_DELETED"
        THEN Deleted(Call(St0, "getOfferByCode"), c)
        ELSE Answer(Call(St0, "getOfferByCode"), 400, "", "Unknown type")

\* The handler from its first line to its answer; existing is what
\* getOfferByCode(post.code) returned to it.
manageOffer(req, existing, env) ==
    LET post == Get(req.post)
        channelId == OrElse(post.channel_id, "")
        c == Locals(post, existing, env)
        expiredOrDeleted == Truthy(post.is_expired) \/ Truthy(post.is_deleted)
    IN  IF ~env.accept_incoming_requests
        THEN Answer(St0, 200, "skipped_incoming_disabled", "")
        ELSE IF req.type = "" \/ req.post = None \/ (req.post # None /\ post.offer_id = "")
        THEN Answer(St0, 400, "", "Missing fields")
        ELSE IF post.is_explicit \/ channelId \in SKIP_CHANNELS \/ post.link_aod
        THEN Answer(St0, 200, "skipped", "")
        ELSE IF post.code = ""
        THEN Answer(St0, 400, "", "Missing code")
        ELSE IF req.type = "POST_CREATED"
        THEN IF expiredOrDeleted THEN CreatedExpiredOrDeleted(Call(St0, "getOfferByCode"), c)
             ELSE CreatedActive(Call(St0, "getOfferByCode"), c)
        ELSE IF req.type = "POST_EDITED"
        THEN IF expiredOrDeleted THEN EditedExpiredOrDeleted(Call(St0, "getOfferByCode"), c)
             ELSE EditedActive(Call(St0, "getOfferByCode"), c)
        ELSE IF req.type = "POST_DELETED"
        THEN Deleted(Call(St0, "getOfferByCode"), c)
        ELSE Answer(Call(St0, "getOfferByCode"), 400, "", "Unknown type")

----------------------------------------------------------------------------
(* The events and the environment the handler is run against *)

\* The template of a post: an active post of channel ch for (o, cd)
Post(o, cd, ch) ==
    [offer_id           |-> o,
     code               |-> cd,
     channel_id         |-> Some(ch),
     is_expired         |-> None,
     is_deleted         |-> None,
     timestamp          |-> None,
     timestamp_expired  |-> None,
     price_numeric      |-> None,
     super_offer_notify |-> FALSE,
     is_explicit        |-> FALSE,
     link_aod           |-> FALSE,
     title              |-> Some("title")]

BasePosts == {Post(o, cd, ch) : o \in OfferIds, cd \in Codes, ch \in ChannelIds}

\* Active posts: the flags are absent, or both reported false
ActivePosts ==
    BasePosts \cup {[p EXCEPT !.is_expired = Some(FALSE), !.is_deleted = Some(FALSE)] : p \in BasePosts}

PostTimestamps == {None, Some(EventTimestamp)}

\* Posts that report the offer expired or deleted, with or without a timestamp
GonePosts(posts) ==
    {[p EXCEPT !.is_expired = f[1], !.is_deleted = f[2], !.timestamp = t] :
        p \in posts, f \in {<<Some(TRUE), None>>, <<None, Some(TRUE)>>}, t \in PostTimestamps}

\* Posts the intake filter of the handler drops
FilteredPosts ==
    {[Post("o1", cd, HighChannel1) EXCEPT !.is_explicit = TRUE] : cd \in Codes}
    \cup {[Post("o1", cd, HighChannel1) EXCEPT !.link_aod = TRUE] : cd \in Codes}
    \cup {Post("o1", cd, ch) : cd \in Codes, ch \in SKIP_CHANNELS}

Request(ty, p) == [type |-> ty, timestamp |-> None, post |-> Some(p)]

\* The events of the arbitration runs: every active post, the filtered ones,
\* and the events that take a row away.  POST_DELETED reads no flag of the
\* post: it is drawn without flags.
Requests ==
    {Request(ty, p) : ty \in {"POST_CREATED", "POST_EDITED"},
                      p \in ActivePosts \cup FilteredPosts
                            \cup {[q EXCEPT !.is_expired = Some(TRUE)] : q \in BasePosts}}
    \cup {Request("POST_DELETED", p) : p \in BasePosts}

\* The events of the deletion runs, all about offer o1: rows are created by
\* active POST_CREATED events of the first and of an unranked channel, and
\* every kind of expired/deleted event is drawn
DeletePosts == {Post("o1", cd, ch) : cd \in Codes, ch \in {HighChannel1, OtherChannel}}

DeleteRequests ==
    {Request("POST_CREATED", p) : p \in DeletePosts}
    \cup {Request(ty, p) : ty \in {"POST_CREATED", "POST_EDITED"}, p \in GonePosts(DeletePosts)}
    \cup {Request("POST_DELETED", [p EXCEPT !.timestamp = t]) :
             p \in DeletePosts, t \in PostTimestamps}

\* The events of the lifecycle runs, all about offer o1: active posts with
\* the flags absent or reported false, with price_numeric absent, null or
\* a number, with and without super_offer_notify; the events that take the
\* offer away; and the bodies the validation of the handler refuses
LowPrice == 1
HighPrice == 2

PostPrices == {None, Some(None), Some(Some(LowPrice)), Some(Some(HighPrice))}

LifeBasePosts == {Post("o1", cd, ch) : cd \in Codes, ch \in {HighChannel1, OtherChannel}}

LifePosts ==
    {[p EXCEPT !.is_expired = f, !.is_deleted = f, !.price_numeric = pr, !.super_offer_notify = so] :
        p \in LifeBasePosts, f \in {None, Some(FALSE)}, pr \in PostPrices, so \in BOOLEAN}

LifeGonePosts ==
    {[p EXCEPT !.is_deleted = f, !.super_offer_notify = so] :
        p \in LifeBasePosts, f \in {None, Some(TRUE)}, so \in BOOLEAN}

MalformedRequests ==
    {[type |-> "", timestamp |-> None, post |-> Some(Post("o1", "c1", HighChannel1))],
     [type |-> "POST_CREATED", timestamp |-> None, post |-> None],
     Request("POST_EDITED", Post("", "c1", HighChannel1)),
     Request("POST_CREATED", Post("o1", "", HighChannel1)),
     Request("POST_OTHER", Post("o1", "c1", HighChannel1))}

LifeRequests ==
    {Request(ty, p) : ty \in {"POST_CREATED", "POST_EDITED"}, p \in LifePosts}
    \cup {Request(ty, p) : ty \in {"POST_CREATED", "POST_EDITED", "POST_DELETED"}, p \in LifeGonePosts}
    \cup MalformedRequests

NominalEnv ==
    [accept_incoming_requests        |-> TRUE,
     send_favorites_notifications    |-> TRUE,
     send_super_offers_notifications |-> TRUE,
     creds        |-> TRUE,
     purgeThrows  |-> FALSE,
     wdFail       |-> FALSE,
     favFail      |-> FALSE,
     notifiedFail |-> FALSE,
     notifInsertFail |-> FALSE,
     sendOk       |-> Users,
     keywordUids  |-> <<>>]

AllEnvs ==
    [accept_incoming_requests        : BOOLEAN,
     send_favorites_notifications    : BOOLEAN,
     send_super_offers_notifications : BOOLEAN,
     creds        : BOOLEAN,
     purgeThrows  : BOOLEAN,
     wdFail       : BOOLEAN,
     favFail      : BOOLEAN,
     notifiedFail : BOOLEAN,
     notifInsertFail : BOOLEAN,
     sendOk       : SUBSET Users,
     keywordUids  : {<<>>, <<"u1">>}]

EnvFields ==
    {"accept_incoming_requests", "send_favorites_notifications",
     "send_super_offers_notifications", "creds", "purgeThrows", "wdFail", "favFail",
     "notifiedFail", "notifInsertFail", "sendOk", "keywordUids"}

\* The values a field of the environment may take
EnvValues(k) ==
    CASE k = "sendOk" -> SUBSET Users
      [] k = "keywordUids" -> {<<>>, <<"u1">>}
      [] OTHER -> BOOLEAN

\* The environments that differ from those of envs in at most n of the
\* given fields
RECURSIVE Faulted(_, _, _)
Faulted(envs, fields, n) ==
    IF n = 0 THEN envs
    ELSE Faulted(envs \cup UNION {{[e EXCEPT ![k] = v] : e \in envs, v \in EnvValues(k)} :
                                      k \in fields},
                 fields, n - 1)

\* The environments that differ from the nominal one in at most MaxFaults
\* of the given fields
EnvsOver(fields) == Faulted({NominalEnv}, fields, MaxFaults)

Envs == EnvsOver({"accept_incoming_requests", "creds", "send_favorites_notifications"})

LifeEnvs ==
    EnvsOver({"accept_incoming_requests", "send_favorites_notifications",
              "send_super_offers_notifications", "creds", "purgeThrows", "keywordUids"})

DeleteEnvs ==
    EnvsOver({"accept_incoming_requests", "wdFail", "favFail", "notifiedFail", "keywordUids"})

----------------------------------------------------------------------------
(* The state machine: events handled one at a time *)

\* The calls of the concurrent runs
Handlers == {"h1", "h2"}

\* A call slot with no call in it
IdleHandler == [pc |-> "idle", req |-> None, existing |-> None]

Init ==
    /\ offers = {}
    /\ favorites = {}
    /\ notifications = {}
    /\ users_notifications = {}
    /\ notifSeq = 0
    /\ users = [u \in Users |-> [token_fcm |-> TRUE, superoffers |-> TRUE,
                                 favorites_products |-> TRUE, favorites_searches |-> TRUE]]
    /\ now = 0
    /\ request = None
    /\ response = None
    /\ inflight = [h \in Handlers |-> IdleHandler]

Idle == request = None /\ response = None

\* An ingestion event arrives: const payload = req.body
Receive(req) ==
    /\ Idle
    /\ request' = Some(req)
    /\ UNCHANGED <<inflight, offers, favorites, notifications, users_notifications, notifSeq,
                   users, now, response>>

\* What getOfferByCode answers to the call for this body (a body without
\* post never reaches the lookup)
LookupOf(req) ==
    IF req.post = None THEN {None} ELSE getOfferByCode(Get(req.post).code)

\* The handler runs from its first line to its answer
ManageOffer(envs) ==
    /\ request # None
    /\ response = None
    /\ \E env \in envs :
       \E existing \in LookupOf(Get(request)) :
       \E r \in {manageOffer(Get(request), existing, env)} :
              /\ r.st.notifSeq <= MaxNotifSeq
              /\ offers' = r.st.offers
              /\ notifications' = r.st.notifications
              /\ users_notifications' = r.st.users_notifications
              /\ notifSeq' = r.st.notifSeq
              /\ response' = Some([status     |-> r.status,
                                   action     |-> r.action,
                                   reason     |-> r.reason,
                                   existing   |-> existing,
                                   env        |-> env,
                                   calls      |-> r.st.calls,
                                   sent       |-> r.st.sent,
                                   dispatched |-> r.st.dispatched])
    /\ UNCHANGED <<inflight, favorites, users, now, request>>

\* The answer has left; the next event can be taken
Complete ==
    /\ response # None
    /\ request' = None
    /\ response' = None
    /\ UNCHANGED <<inflight, offers, favorites, notifications, users_notifications, notifSeq, users, now>>

\* POST /favorites-add of a product favorite
FavoritesAdd(uid, key) ==
    /\ Idle
    /\ Cardinality(favorites \cup {[uid |-> uid, key |-> key, type |-> "offer"]}) <= MaxFavorites
    /\ favorites' = favorites \cup {[uid |-> uid, key |-> key, type |-> "offer"]}
    /\ UNCHANGED <<inflight, offers, notifications, users_notifications, notifSeq, users, now,
                   request, response>>

\* POST /favorites-remove
FavoritesRemove(uid, key) ==
    /\ Idle
    /\ \E f \in favorites : f.uid = uid /\ f.key = key
    /\ favorites' = {f \in favorites : ~(f.uid = uid /\ f.key = key)}
    /\ UNCHANGED <<inflight, offers, notifications, users_notifications, notifSeq, users, now,
                   request, response>>

\* Time passes: one lookback window
Tick ==
    /\ Idle
    /\ now + NotifiedLookbackDays <= MaxNow
    /\ now' = now + NotifiedLookbackDays
    /\ UNCHANGED <<inflight, offers, favorites, notifications, users_notifications, notifSeq, users,
                   request, response>>

\* Arbitration runs: time stands still
Next ==
    \/ \E req \in Requests : Receive(req)
    \/ ManageOffer(Envs)
    \/ Complete
    \/ \E uid \in FavoriteUsers, key \in OfferIds : FavoritesAdd(uid, key)
    \/ \E uid \in FavoriteUsers, key \in OfferIds : FavoritesRemove(uid, key)

Spec == Init /\ [][Next]_vars

\* Deletion runs
NextDelete ==
    \/ \E req \in DeleteRequests : Receive(req)
    \/ ManageOffer(DeleteEnvs)
    \/ Complete
    \/ \E uid \in FavoriteUsers : FavoritesAdd(uid, "o1")
    \/ \E uid \in FavoriteUsers : FavoritesRemove(uid, "o1")
    \/ Tick

SpecDelete == Init /\ [][NextDelete]_vars

\* Lifecycle runs: restoration, price drop, broadcasts, refusals, errors
NextLife ==
    \/ \E req \in LifeRequests : Receive(req)
    \/ ManageOffer(LifeEnvs)
    \/ Complete
    \/ \E uid \in FavoriteUsers : FavoritesAdd(uid, "o1")
    \/ \E uid \in FavoriteUsers : FavoritesRemove(uid, "o1")

SpecLife == Init /\ [][NextLife]_vars

----------------------------------------------------------------------------
(* Concurrent runs: the handler is an async function, and every await of   *)
(* it is a point where another call may run.  A call is split at its first *)
(* datastore await that matters to arbitration: the lookup by code; from   *)
(* what the lookup returned the call runs on to its answer.                *)

\* The events of the concurrent runs: the posts of the first and of an
\* unranked channel, under either offer_id
ConcPosts == {Post(o, cd, ch) : o \in OfferIds, cd \in Codes, ch \in {HighChannel1, OtherChannel}}

ConcRequests ==
    {Request(ty, p) : ty \in {"POST_CREATED", "POST_EDITED", "POST_DELETED"}, p \in ConcPosts}

ConcEnvs == {NominalEnv}

\* A call arrives
ConcReceive(h, req) ==
    /\ inflight[h].pc = "idle"
    /\ inflight' = [inflight EXCEPT ![h] = [pc |-> "received", req |-> Some(req), existing |-> None]]
    /\ UNCHANGED <<offers, favorites, notifications, users_notifications, notifSeq,
                   users, now, request, response>>

\* const existing = await getOfferByCode(code)
ConcLookup(h) ==
    /\ inflight[h].pc = "received"
    /\ \E existing \in getOfferByCode(Get(Get(inflight[h].req).post).code) :
          inflight' = [inflight EXCEPT ![h].pc = "looked", ![h].existing = existing]
    /\ UNCHANGED <<offers, favorites, notifications, users_notifications, notifSeq,
                   users, now, request, response>>

\* The call runs from the lookup's result to its answer
ConcManageOffer(h, envs) ==
    /\ inflight[h].pc = "looked"
    /\ \E env \in envs :
       \E r \in {manageOffer(Get(inflight[h].req), inflight[h].existing, env)} :
              /\ r.st.notifSeq <= MaxNotifSeq
              /\ offers' = r.st.offers
              /\ notifications' = r.st.notifications
              /\ users_notifications' = r.st.users_notifications
              /\ notifSeq' = r.st.notifSeq
    /\ inflight' = [inflight EXCEPT ![h] = IdleHandler]
    /\ UNCHANGED <<favorites, users, now, request, response>>

NextConc ==
    \/ \E h \in Handlers, req \in ConcRequests : ConcReceive(h, req)
    \/ \E h \in Handlers : ConcLookup(h)
    \/ \E h \in Handlers : ConcManageOffer(h, ConcEnvs)

SpecConc == Init /\ [][NextConc]_vars

\* Two active events for one code and one offer_id, one of the first
\* channel and one of an unranked channel, handled concurrently
RaceRequests ==
    {Request(ty, Post("o1", "c1", ch)) :
        ty \in {"POST_CREATED", "POST_EDITED"}, ch \in {HighChannel1, OtherChannel}}

\* The call runs from the lookup's result to its answer; request and
\* response keep the last call answered: its body, what its lookup had
\* returned, the table as the call found it when it went on, and the answer
RaceManageOffer(h) ==
    /\ inflight[h].pc = "looked"
    /\ \E r \in {manageOffer(Get(inflight[h].req), inflight[h].existing, NominalEnv)} :
          /\ r.st.notifSeq <= MaxNotifSeq
          /\ offers' = r.st.offers
          /\ notifications' = r.st.notifications
          /\ users_notifications' = r.st.users_notifications
          /\ notifSeq' = r.st.notifSeq
          /\ request' = inflight[h].req
          /\ response' = Some([existing |-> inflight[h].existing,
                               before   |-> offers,
                               status   |-> r.status,
                               action   |-> r.action])
    /\ inflight' = [inflight EXCEPT ![h] = IdleHandler]
    /\ UNCHANGED <<favorites, users, now>>

NextRace ==
    \/ \E h \in Handlers, req \in RaceRequests : ConcReceive(h, req)
    \/ \E h \in Handlers : ConcLookup(h)
    \/ \E h \in Handlers : RaceManageOffer(h)

SpecRace == Init /\ [][NextRace]_vars

----------------------------------------------------------------------------
(* Vocabulary of the properties *)

\* The step in which the handler answers the event in flight
Handled == request # None /\ response = None /\ response' # None

ReqType == Get(request).type
ReqPost == Get(Get(request).post)
ReqChannel == OrElse(ReqPost.channel_id, "")

\* The ranks as the specification states them
Rank(channel) ==
    IF channel = HighChannel1 THEN 1 ELSE IF channel = HighChannel2 THEN 2 ELSE 3

RowsOfCode(offs, code) == {r \in offs : r.code = code}

IsActiveRow(r) == ~r.is_expired /\ ~r.is_deleted

\* A CREATED or EDITED event that reports the offer available
ActiveEvent ==
    /\ Get(request).post # None
    /\ ReqType \in {"POST_CREATED", "POST_EDITED"}
    /\ ~Truthy(ReqPost.is_expired)
    /\ ~Truthy(ReqPost.is_deleted)

----------------------------------------------------------------------------
(* C1: an active CREATED or EDITED event from a channel of lower priority  *)
(* (greater rank) never changes the offers table when the row of its code  *)
(* is active and owned by a channel of higher priority.                    *)

C1_LowerPriorityNeverOverwrites ==
    [][(/\ Handled
        /\ ActiveEvent
        /\ \E r \in RowsOfCode(offers, ReqPost.code) :
              IsActiveRow(r) /\ Rank(r.channel_id) < Rank(ReqChannel))
       => offers' = offers]_vars

C1_Witness ==
    /\ response # None
    /\ Get(response).action = "skipped"
    /\ Get(response).reason = "lower_priority_channel"
    /\ \E r \in RowsOfCode(offers, ReqPost.code) :
          IsActiveRow(r) /\ Rank(r.channel_id) < Rank(ReqChannel)

----------------------------------------------------------------------------
(* C2 *)

\* The event is applied to the row the lookup returned: the answer names
\* the event's own action, and the row (still under its offer_id) carries
\* the event's channel and every flag and price the event reports
AppliedToExisting ==
    LET existing == Get(Get(response').existing)
    IN  /\ Get(response').status = 200
        /\ Get(response').action = (IF ReqType = "POST_CREATED" THEN "created" ELSE "edited")
        /\ \E r \in offers' :
              /\ r.offer_id = existing.offer_id
              /\ r.code = ReqPost.code
              /\ r.channel_id = ReqChannel
              /\ IsSome(ReqPost.is_expired) => r.is_expired = toBool(ReqPost.is_expired)
              /\ IsSome(ReqPost.is_deleted) => r.is_deleted = toBool(ReqPost.is_deleted)
              /\ IsSome(ReqPost.price_numeric) => r.price_numeric = Get(ReqPost.price_numeric)

\* An active event from a channel whose priority is not lower than the
\* priority of the channel that owns the row of its code
NotLowerPriorityEvent ==
    /\ Handled
    /\ ActiveEvent
    /\ \E r \in RowsOfCode(offers, ReqPost.code) : Rank(ReqChannel) <= Rank(r.channel_id)

\* The event gets past the intake of the handler: incoming requests are
\* accepted, the post is not explicit, its channel is not on the skip list
\* and its link carries no AOD marker
PassesIntake ==
    /\ Get(response').action # "skipped_incoming_disabled"
    /\ ~ReqPost.is_explicit
    /\ ReqChannel \notin SKIP_CHANNELS
    /\ ~ReqPost.link_aod

\* C2 as stated: every active CREATED or EDITED event from a channel of
\* equal or higher priority than the owner of the row (active or
\* soft-deleted) is applied.
C2_Original_EveryEventApplied ==
    [][NotLowerPriorityEvent => AppliedToExisting]_vars

\* C2, amended: an active CREATED or EDITED event that passes intake, from a
\* channel of equal or higher priority than the owner of the row (active or
\* soft-deleted), is applied: the row carries the event's data and channel
\* and the action is created or edited, never skipped.
C2_AdmittedEventApplied ==
    [][(NotLowerPriorityEvent /\ PassesIntake) => AppliedToExisting]_vars

\* An event of the second channel has overwritten a row the unranked
\* channel owned
C2_Witness ==
    /\ response # None
    /\ Get(response).action \in {"created", "edited"}
    /\ ReqChannel = HighChannel2
    /\ Get(response).existing # None
    /\ Get(Get(response).existing).channel_id = OtherChannel
    /\ \E r \in RowsOfCode(offers, ReqPost.code) : r.channel_id = HighChannel2

----------------------------------------------------------------------------
(* C3 *)

\* C3: in every reachable state, also of concurrently handled events for
\* the same code, the table of offers holds at most one row per code.
C3_AtMostOneRowPerCode ==
    \A r \in offers : \A q \in offers : r.code = q.code => r = q

----------------------------------------------------------------------------
(* C4 *)

\* The row a first POST_CREATED with this post leaves in an empty table
FirstRow(post) ==
    [offer_id          |-> post.offer_id,
     code              |-> post.code,
     channel_id        |-> OrElse(post.channel_id, ""),
     is_expired        |-> FALSE,
     is_deleted        |-> FALSE,
     timestamp_expired |-> None,
     price_numeric     |-> IF IsSome(post.price_numeric) THEN Get(post.price_numeric) ELSE None]

\* C4: a POST_CREATED for a code that already has a row creates no second
\* row: the code keeps one row, under the offer_id it had; and the replay
\* of the very event that created the row leaves the table as it was.
C4_ReplayCreatesNoSecondRow ==
    [][(/\ Handled
        /\ ReqType = "POST_CREATED"
        /\ ActiveEvent
        /\ RowsOfCode(offers, ReqPost.code) # {})
       => /\ Cardinality(RowsOfCode(offers', ReqPost.code)) = 1
          /\ {r.offer_id : r \in RowsOfCode(offers', ReqPost.code)}
                = {r.offer_id : r \in RowsOfCode(offers, ReqPost.code)}
          /\ offers = {FirstRow(ReqPost)} => offers' = offers]_vars

\* The replay of the creating event has been applied
C4_Witness ==
    /\ response # None
    /\ ReqType = "POST_CREATED"
    /\ Get(response).action = "created"
    /\ Get(response).existing = Some(FirstRow(ReqPost))
    /\ offers = {FirstRow(ReqPost)}

----------------------------------------------------------------------------
(* C5 *)

\* C5: while a row is not physically removed its offer_id never changes:
\* whatever the handler does, a code that keeps a row keeps it under the
\* offer_id it had, also when the event reports another offer_id.
C5_OfferIdNeverChanges ==
    [][Handled =>
        \A r \in offers :
            RowsOfCode(offers', r.code) # {}
            => \A q \in RowsOfCode(offers', r.code) : q.offer_id = r.offer_id]_vars

\* An event reporting another offer_id has been applied to the row, which
\* is still under its original offer_id
C5_Witness ==
    /\ response # None
    /\ Get(response).action \in {"created", "edited"}
    /\ Get(response).existing # None
    /\ Get(Get(response).existing).offer_id # ReqPost.offer_id
    /\ \E r \in offers : r.offer_id = Get(Get(response).existing).offer_id
                         /\ r.channel_id = ReqChannel
    /\ \A r \in offers : r.offer_id # ReqPost.offer_id

----------------------------------------------------------------------------
(* Vocabulary of the deletion properties *)

\* An event that reports the offer expired or deleted
GoneEvent ==
    /\ Get(request).post # None
    /\ \/ ReqType = "POST_DELETED"
       \/ /\ ReqType \in {"POST_CREATED", "POST_EDITED"}
          /\ Truthy(ReqPost.is_expired) \/ Truthy(ReqPost.is_deleted)

\* Some user holds the offer as a product favorite
Favorited(offerId) == \E f \in favorites : f.type = "offer" /\ f.key = offerId

\* A notification about the offer was created within the lookback
NotifiedRecently(offerId) ==
    \E n \in notifications : n.offer_id = offerId /\ n.created_at > now - 7

\* The reporting channel may overwrite row r
Permitted(r) == Rank(ReqChannel) <= Rank(r.channel_id)

RowsOfId(offs, offerId) == {r \in offs : r.offer_id = offerId}

\* The retraction is the first thing the handler does after the lookup
RetractionFirst ==
    /\ Len(Get(response').calls) >= 2
    /\ Get(response').calls[1] = "getOfferByCode"
    /\ Get(response').calls[2] = "withdrawOfferNotifications"

----------------------------------------------------------------------------
(* C6 *)

----------------------------------------------------------------------------
(* C7 *)

\* C7: an expired/deleted event (here: one that passes intake) from a
\* permitted channel on an offer that some user holds as a product
\* favorite keeps the row, with is_deleted = true and is_expired = true.
C7_FavoritedRowRetainedSoftDeleted ==
    [][(Handled /\ GoneEvent /\ PassesIntake)
       => \A r \in RowsOfCode(offers, ReqPost.code) :
             (Permitted(r) /\ Favorited(r.offer_id))
             => \E q \in RowsOfId(offers', r.offer_id) : q.is_deleted /\ q.is_expired]_vars

----------------------------------------------------------------------------
(* C8 *)

\* C8: no handling of an event removes a row while some user holds the
\* offer as a product favorite or a notification about it was created
\* within the lookback, whatever the lookups of the handler answer.
C8_HeldRowNeverRemoved ==
    [][Handled
       => \A r \in offers :
             (Favorited(r.offer_id) \/ NotifiedRecently(r.offer_id))
             => RowsOfId(offers', r.offer_id) # {}]_vars

----------------------------------------------------------------------------
(* C9 *)

\* The handler answered that it soft-deleted the row
SoftDeleteAnswer ==
    Get(response').action \in {"soft_deleted", "soft_deleted_via_edit",
                               "ignored_deleted_because_in_favorites"}

\* C9: whenever an event soft-deletes a row that is retained because of a
\* favoriter or of a notification within the lookback, the stored
\* timestamp_expired is the event's explicit timestamp if it carries one,
\* and else the handling time plus 7 days.
C9_SoftDeleteExpiry ==
    [][(Handled /\ GoneEvent /\ SoftDeleteAnswer)
       => \A r \in RowsOfCode(offers, ReqPost.code) :
             (Favorited(r.offer_id) \/ NotifiedRecently(r.offer_id))
             => \A q \in RowsOfId(offers', r.offer_id) :
                q.timestamp_expired =
                    Some(IF IsSome(ReqPost.timestamp) THEN Get(ReqPost.timestamp) ELSE now + 7)]_vars

----------------------------------------------------------------------------
(* C10 *)

\* C10 as stated: every expired/deleted event attempts the retraction
\* first; an event whose channel is not permitted is answered
\* delete_ignored and leaves the table of offers unchanged.
C10_Original_DeleteIgnored ==
    [][(Handled /\ GoneEvent)
       => /\ RetractionFirst
          /\ \A r \in RowsOfCode(offers, ReqPost.code) :
                ~Permitted(r) => /\ Get(response').action = "delete_ignored"
                                 /\ offers' = offers]_vars

\* C10, amended: every expired/deleted event that passes intake attempts
\* the retraction first, before the arbitration; if the channel is not
\* permitted the handler stops right after it and leaves the table of
\* offers unchanged, answering delete_ignored to a flagged POST_CREATED or
\* POST_EDITED and skipped / lower_priority_on_delete to a POST_DELETED.
C10_RetractionFirstThenStop ==
    [][(Handled /\ GoneEvent /\ PassesIntake)
       => /\ RetractionFirst
          /\ \A r \in RowsOfCode(offers, ReqPost.code) :
                ~Permitted(r)
                => /\ offers' = offers
                   /\ Get(response').calls = <<"getOfferByCode", "withdrawOfferNotifications">>
                   /\ IF ReqType = "POST_DELETED"
                      THEN /\ Get(response').action = "skipped"
                           /\ Get(response').reason = "lower_priority_on_delete"
                      ELSE Get(response').action = "delete_ignored"]_vars

\* An event of a channel that is not permitted was answered delete_ignored
\* after it had retracted a receipt of the offer
C10_Witness ==
    /\ response # None
    /\ Get(response).action = "delete_ignored"
    /\ Get(response).existing # None
    /\ Get(response).existing \in {Some(r) : r \in offers}
    /\ \E un \in users_notifications : un.withdrawn
    /\ \E m \in Get(response).sent : m.kind = "retract"

----------------------------------------------------------------------------
(* Vocabulary of the lifecycle properties *)

IsFlaggedRow(r) == r.is_deleted \/ r.is_expired

\* The value the handler stores for "no expiry"
NoExpiry == -1

\* The row is available again: both flags off, expiry reset
IsRestoredRow(q) == ~q.is_deleted /\ ~q.is_expired /\ q.timestamp_expired = Some(NoExpiry)

\* A POST_EDITED that reports is_deleted = false and is_expired = false
RestoringEdit ==
    /\ Handled
    /\ ReqType = "POST_EDITED"
    /\ ReqPost.is_deleted = Some(FALSE)
    /\ ReqPost.is_expired = Some(FALSE)

----------------------------------------------------------------------------
(* C11 *)

\* C11 as stated: every POST_EDITED that reports both flags false on a
\* soft-deleted row leaves the row with both flags off and the expiry reset.
C11_Original_EveryEditRestores ==
    [][RestoringEdit
       => \A r \in RowsOfCode(offers, ReqPost.code) :
             IsFlaggedRow(r) => \E q \in RowsOfId(offers', r.offer_id) : IsRestoredRow(q)]_vars

\* C11, amended: a POST_EDITED that passes intake and reports is_deleted =
\* false and is_expired = false on a soft-deleted row leaves the row with
\* is_deleted = false, is_expired = false and timestamp_expired = -1,
\* whatever its channel (no channel fails arbitration against a flagged row).
C11_AdmittedEditRestores ==
    [][(RestoringEdit /\ PassesIntake)
       => \A r \in RowsOfCode(offers, ReqPost.code) :
             IsFlaggedRow(r) => \E q \in RowsOfId(offers', r.offer_id) : IsRestoredRow(q)]_vars

\* An edit has restored a soft-deleted row
C11_Witness ==
    /\ response # None
    /\ ReqType = "POST_EDITED"
    /\ Get(response).action = "edited"
    /\ Get(response).existing # None
    /\ IsFlaggedRow(Get(Get(response).existing))
    /\ Get(Get(response).existing).timestamp_expired # Some(NoExpiry)
    /\ \E q \in RowsOfCode(offers, ReqPost.code) : IsRestoredRow(q)

----------------------------------------------------------------------------
(* C12 *)

\* C12: whenever an active event (POST_CREATED or POST_EDITED, flags
\* reported false or omitted) is applied to a row that is flagged deleted or
\* expired, the stored row has both flags off and the expiry cleared; and
\* no row is left flagged after an "available again" notification for it.
C12_AppliedActiveEventClearsFlags ==
    [][(Handled /\ ActiveEvent /\ Get(response').action \in {"created", "edited"})
       => \A r \in RowsOfCode(offers, ReqPost.code) :
             IsFlaggedRow(r)
             => \E q \in RowsOfId(offers', r.offer_id) :
                   /\ ~IsFlaggedRow(q)
                   /\ q.timestamp_expired \in {None, Some(NoExpiry)}]_vars

----------------------------------------------------------------------------
(* C13 *)

\* The handling dispatched a price-drop notification
PriceDropDispatched ==
    \E i \in 1..Len(Get(response').dispatched) : Get(response').dispatched[i] = PriceDropOptions

\* C13: a price-drop notification is dispatched only by a POST_EDITED that
\* passed arbitration, and only when the stored row has a numeric price,
\* the event carries a numeric price (not absent, not null) that is
\* strictly lower, and the offer has a product favoriter.
C13_PriceDropOnlyOnLowerNumericPrice ==
    [][(Handled /\ PriceDropDispatched)
       => /\ ReqType = "POST_EDITED"
          /\ Get(response').reason # "lower_priority_on_edit"
          /\ \E r \in RowsOfCode(offers, ReqPost.code) :
                /\ IsSome(r.price_numeric)
                /\ IsSome(ReqPost.price_numeric)
                /\ IsSome(Get(ReqPost.price_numeric))
                /\ Get(Get(ReqPost.price_numeric)) < Get(r.price_numeric)
                /\ Favorited(r.offer_id)]_vars

----------------------------------------------------------------------------
(* C14 *)

\* The positions of a service call in the calls of the handling
CallsOf(name) ==
    {i \in 1..Len(Get(response').calls) : Get(response').calls[i] = name}

\* The handling ran the match engine or dispatched a keyword notification
KeywordMatched ==
    \/ CallsOf("findUsersWithMatchingKeywords") # {}
    \/ \E i \in 1..Len(Get(response').dispatched) : Get(response').dispatched[i] = KeywordOptions

\* C14: the match engine runs, and the keyword notification is dispatched,
\* only while a POST_CREATED is handled and only after the offer row of the
\* event has been persisted; never for a POST_EDITED or a POST_DELETED.
C14_KeywordMatchOnlyAfterCreatePersisted ==
    [][(Handled /\ KeywordMatched)
       => /\ ReqType = "POST_CREATED"
          /\ CallsOf("findUsersWithMatchingKeywords") # {}
          /\ \A k \in CallsOf("findUsersWithMatchingKeywords") :
                \E i \in CallsOf("insertOrUpdateOffer") : i < k
          /\ \A k \in CallsOf("findUsersWithMatchingKeywords") :
                \A j \in k + 1..Len(Get(response').calls) :
                    Get(response').calls[j] = "notifyUsersAboutOffer"
          /\ \E q \in RowsOfCode(offers', ReqPost.code) :
                q.channel_id = ReqChannel]_vars

\* A POST_CREATED has been persisted and its keyword notification delivered
C14_Witness ==
    /\ response # None
    /\ ReqType = "POST_CREATED"
    /\ Get(response).action = "created"
    /\ \E m \in Get(response).sent : m.kind = "push" /\ m.options = KeywordOptions
    /\ RowsOfCode(offers, ReqPost.code) # {}

----------------------------------------------------------------------------
(* C15 *)

\* The super-offer pushes of the handling
SuperOfferPushes == {m \in Get(response').sent : m.kind = "superoffer"}

\* C15: one handling broadcasts the super offer at most once, whatever the
\* event type and the branch, and only when the event carries
\* super_offer_notify and send_super_offers_notifications is on.
C15_SuperOfferAtMostOnceAndOnlyWhenEnabled ==
    [][Handled
       => /\ Cardinality(CallsOf("sendSuperOfferNotification")) <= 1
          /\ (SuperOfferPushes # {} => CallsOf("sendSuperOfferNotification") # {})
          /\ \A u \in Users : Cardinality({m \in SuperOfferPushes : m.uid = u}) <= 1
          /\ (CallsOf("sendSuperOfferNotification") # {}
                => /\ ReqPost.super_offer_notify
                   /\ Get(response').env.send_super_offers_notifications)]_vars

\* An event carrying super_offer_notify has been broadcast
C15_Witness ==
    /\ response # None
    /\ Get(request).post # None
    /\ ReqPost.super_offer_notify
    /\ Get(response).env.send_super_offers_notifications
    /\ \E m \in Get(response).sent : m.kind = "superoffer"
    /\ Cardinality({i \in 1..Len(Get(response).calls) :
                      Get(response).calls[i] = "sendSuperOfferNotification"}) = 1

----------------------------------------------------------------------------
(* C16 *)

\* The handling answered that the event lost the arbitration
SkippedLowerPriority ==
    /\ Get(response').action = "skipped"
    /\ Get(response').reason \in {"lower_priority_channel", "lower_priority_on_edit"}

\* C16: an active POST_CREATED or POST_EDITED that loses the arbitration
\* against an active row changes no offer row, no notification record and
\* no receipt, and sends no message of any kind, the super-offer broadcast
\* included.
C16_LostArbitrationIsNoOp ==
    [][(Handled /\ ActiveEvent /\ SkippedLowerPriority
          /\ \E r \in RowsOfCode(offers, ReqPost.code) : IsActiveRow(r))
       => /\ offers' = offers
          /\ notifications' = notifications
          /\ users_notifications' = users_notifications
          /\ Get(response').sent = {}]_vars

----------------------------------------------------------------------------
(* C17 *)

\* C17: a POST_EDITED or a POST_DELETED whose code has no row creates no
\* row and leaves the offers table as it was.
C17_NoRowEditOrDeleteIsNoOp ==
    [][(Handled /\ ReqType \in {"POST_EDITED", "POST_DELETED"}
          /\ Get(request).post # None
          /\ RowsOfCode(offers, ReqPost.code) = {})
       => offers' = offers]_vars

----------------------------------------------------------------------------
(* C18 *)

\* C18: an event answered with a 4xx status (type, post, offer_id or code
\* missing, or a type that is none of the three) leaves the offer rows, the
\* notification records and the receipts as they were, and sends no push,
\* no retraction and no broadcast.
C18_ClientErrorHasNoSideEffects ==
    [][(Handled /\ Get(response').status >= 400 /\ Get(response').status < 500)
       => /\ offers' = offers
          /\ notifications' = notifications
          /\ users_notifications' = users_notifications
          /\ notifSeq' = notifSeq
          /\ Get(response').sent = {}
          /\ Get(response').dispatched = <<>>
          /\ \A i \in 1..Len(Get(response').calls) :
                Get(response').calls[i] = "getOfferByCode"]_vars

\* A malformed event has been answered 400 while a row, a notification
\* record and a receipt were stored
C18_Witness ==
    /\ response # None
    /\ Get(response).status = 400
    /\ offers # {}
    /\ notifications # {}
    /\ users_notifications # {}

----------------------------------------------------------------------------
(* C19 *)

\* The cache purge of the handling failed
PurgeFailed ==
    /\ Get(response').env.purgeThrows
    /\ CallsOf("purgeCache") # {}

\* What the same handling has written when the purge is reached: the run
\* in which the purge succeeds and no keyword favorite matches afterwards
UpToPurge ==
    manageOffer(Get(request), Get(response').existing,
                [Get(response').env EXCEPT !.purgeThrows = FALSE, !.keywordUids = <<>>]).st

----------------------------------------------------------------------------
(* services/postgres.js: findUsersWithMatchingKeywords *)

\* Strings are words of a small vocabulary, a phrase is a sequence of words
\* (the words of a title or of a favorite key, separated by one space).
MaxMatchFavorites == 2

toLowerCase(w) ==
    CASE w \in {"iphone", "iPhone", "Iphone"} -> "iphone"
      [] w \in {"pro", "Pro"} -> "pro"
      [] w \in {"tech", "Tech"} -> "tech"
      [] OTHER -> w

\* w.charAt(0).toUpperCase() + w.slice(1), of a lower-case word
Capitalize(w) ==
    CASE w = "iphone" -> "Iphone"
      [] w = "pro" -> "Pro"
      [] w = "tech" -> "Tech"
      [] OTHER -> w

WordLength(w) ==
    CASE toLowerCase(w) = "iphone" -> 6
      [] toLowerCase(w) = "15" -> 2
      [] OTHER -> Len(<<1, 2, 3>>)

LowerPhrase(p) == [i \in DOMAIN p |-> toLowerCase(p[i])]

\* Array.from(new Set(s)): the first occurrence of each element, in order
RECURSIVE Unique(_)
Unique(s) ==
    IF s = <<>> THEN <<>>
    ELSE LET init == Unique(SubSeq(s, 1, Len(s) - 1))
             last == s[Len(s)]
         IN  IF \E i \in DOMAIN init : init[i] = last THEN init ELSE Append(init, last)

\* s.slice(0, n)
Slice(s, n) == SubSeq(s, 1, IF Len(s) < n THEN Len(s) ELSE n)

\* utils.js: the lower-case words of at least three characters, once each
extractWordsFromTitle(title) ==
    Unique(SelectSeq(LowerPhrase(title), LAMBDA w : WordLength(w) >= 3))

\* the rows of a query, in the order of their id
RECURSIVE RowsById(_)
RowsById(S) ==
    IF S = {} THEN <<>>
    ELSE LET r == CHOOSE x \in S : \A y \in S : x.id <= y.id
         IN  <<r>> \o RowsById(S \ {r})

\* the metadata filter of one keyword favorite against the offer
IsMatch(row, offer) ==
    /\ (IsSome(row.category) /\ IsSome(offer.offerCategory))
          => toLowerCase(Get(row.category)) = toLowerCase(Get(offer.offerCategory))
    /\ (IsSome(row.store) /\ IsSome(offer.offerStore))
          => toLowerCase(Get(row.store)) = toLowerCase(Get(offer.offerStore))
    /\ (IsSome(row.min_price) /\ IsSome(offer.offerPrice))
          => ~(Get(offer.offerPrice) < Get(row.min_price))
    /\ (IsSome(row.max_price) /\ IsSome(offer.offerPrice))
          => ~(Get(offer.offerPrice) > Get(row.max_price))
    /\ (IsSome(row.min_discount) /\ IsSome(offer.offerDiscount))
          => ~(Get(offer.offerDiscount) < Get(row.min_discount))

\* the candidate words and phrases of a title
Candidates(titleWords, rawTitle) ==
    LET orderedTokensLow == LowerPhrase(rawTitle)
        singleWords == Slice(Unique(LowerPhrase(titleWords)), 5)
        bigrams == [i \in 1..(IF Len(rawTitle) > 1 THEN Len(rawTitle) - 1 ELSE 0) |->
                       <<orderedTokensLow[i], orderedTokensLow[i + 1]>>]
        trigrams == [i \in 1..(IF Len(rawTitle) > 2 THEN Len(rawTitle) - 2 ELSE 0) |->
                       <<orderedTokensLow[i], orderedTokensLow[i + 1], orderedTokensLow[i + 2]>>]
        words == [i \in 1..2 * Len(singleWords) |->
                     IF i % 2 = 1 THEN <<singleWords[(i + 1) \div 2]>>
                     ELSE <<Capitalize(singleWords[i \div 2])>>]
    IN  Unique(words \o Slice(bigrams, 5) \o Slice(trigrams, 3))

ChunkSize == 20

\* the keyword matches of the chunks from the k-th on
RECURSIVE ChunkMatches(_, _, _, _)
ChunkMatches(table, candidateSet, offer, k) ==
    IF (k - 1) * ChunkSize >= Len(candidateSet) THEN <<>>
    ELSE LET chunk == SubSeq(candidateSet, (k - 1) * ChunkSize + 1,
                             IF k * ChunkSize < Len(candidateSet)
                             THEN k * ChunkSize ELSE Len(candidateSet))
             rows == RowsById({f \in table :
                         /\ f.type = "keyword"
                         /\ \E i \in DOMAIN chunk : LowerPhrase(f.key) = LowerPhrase(chunk[i])})
             kept == SelectSeq(rows, LAMBDA row : IsMatch(row, offer))
         IN  [i \in DOMAIN kept |->
                 [userId |-> kept[i].uid, matchType |-> "keyword",
                  keyword |-> Some(kept[i].key), offerId |-> None,
                  favoriteId |-> kept[i].id]]
             \o ChunkMatches(table, candidateSet, offer, k + 1)

\* `${m.userId}|${m.matchType}|${m.keyword || m.offerId || ''}`
MatchKey(m) ==
    <<m.userId, m.matchType,
      IF IsSome(m.keyword) THEN Get(m.keyword) ELSE IF IsSome(m.offerId) THEN <<Get(m.offerId)>> ELSE <<>>>>

\* the first match of each key, in order
RECURSIVE UniqueMatches(_)
UniqueMatches(s) ==
    IF s = <<>> THEN <<>>
    ELSE LET init == UniqueMatches(SubSeq(s, 1, Len(s) - 1))
             last == s[Len(s)]
         IN  IF \E i \in DOMAIN init : MatchKey(init[i]) = MatchKey(last)
             THEN init ELSE Append(init, last)

findUsersWithMatchingKeywords(table, offer) ==
    LET candidateSet == Candidates(offer.titleWords, offer.rawTitle)
        keywordMatches == ChunkMatches(table, candidateSet, offer, 1)
        products == RowsById({f \in table : f.type = "offer" /\ f.key = <<offer.offerId>>})
        productMatches ==
            [i \in DOMAIN products |->
                [userId |-> products[i].uid, matchType |-> "product",
                 keyword |-> None, offerId |-> Some(offer.offerId),
                 favoriteId |-> products[i].id]]
    IN  UniqueMatches(keywordMatches \o productMatches)

\* the number of chunks the candidates are looked up in
ChunkCount(candidateSet) == (Len(candidateSet) + ChunkSize - 1) \div ChunkSize

\* The call as its caller sees it. client.query of a chunk is awaited inside
\* try/finally with no catch: the query of chunk failedChunk rejecting (0:
\* none does) ends the call with that error, and no result is returned.
findMatchesOrThrow(table, offer, failedChunk) ==
    IF /\ failedChunk >= 1
       /\ failedChunk <= ChunkCount(Candidates(offer.titleWords, offer.rawTitle))
    THEN [failedChunk |-> failedChunk, error |-> "query_failed"]
    ELSE [failedChunk |-> failedChunk, matches |-> findUsersWithMatchingKeywords(table, offer)]

\* the chunk whose query is made to fail, 0 for none
FailedChunks == {0, 1}

\* The titles, the offers and the favorites the match engine is run on
Titles ==
    {<<"iPhone">>, <<"iPhone", "15">>, <<"iPhone", "15", "Pro">>, <<"pro", "iphone">>,
     <<"15">>, <<"iphone", "iphone">>}

MatchOffers ==
    {[titleWords |-> extractWordsFromTitle(t), rawTitle |-> t, offerId |-> "o1",
      offerPrice |-> pr, offerDiscount |-> None, offerStore |-> None, offerCategory |-> cat] :
        t \in Titles, pr \in {None, Some(HighPrice)}, cat \in {None, Some("tech")}}

FavoriteKeys == {<<"iphone">>, <<"iphone", "15">>, <<"Pro">>, <<"15">>}

FavoriteFilters ==
    {[category |-> cat, store |-> None, min_price |-> None, max_price |-> mx,
      min_discount |-> None] :
        cat \in {None, Some("Tech")}, mx \in {None, Some(LowPrice)}}

FavoriteRow(id, uid, type, key, flt) ==
    [id |-> id, uid |-> uid, key |-> key, type |-> type,
     category |-> flt.category, store |-> flt.store, min_price |-> flt.min_price,
     max_price |-> flt.max_price, min_discount |-> flt.min_discount]

NoFilter == CHOOSE flt \in FavoriteFilters : flt.category = None /\ flt.max_price = None

\* addFavorite: one more row of table "favorites", under the next id
AddFavorite(uid, type, key, flt) ==
    /\ Idle
    /\ Cardinality(favorites) < MaxMatchFavorites
    /\ ~\E f \in favorites : f.uid = uid /\ f.key = key /\ f.type = type
    /\ favorites' = favorites \cup {FavoriteRow(Cardinality(favorites) + 1, uid, type, key, flt)}
    /\ UNCHANGED <<inflight, offers, notifications, users_notifications, notifSeq, users, now,
                   request, response>>

\* One run of the match engine on the favorites of the moment
FindUsersWithMatchingKeywords(offer, failedChunk) ==
    /\ Idle
    /\ request' = Some(offer)
    /\ response' = Some(findMatchesOrThrow(favorites, offer, failedChunk))
    /\ UNCHANGED <<inflight, offers, favorites, notifications, users_notifications, notifSeq,
                   users, now>>

NextMatch ==
    \/ \E uid \in Users, key \in FavoriteKeys, flt \in FavoriteFilters :
          AddFavorite(uid, "keyword", key, flt)
    \/ \E uid \in Users : AddFavorite(uid, "offer", <<"o1">>, NoFilter)
    \/ \E offer \in MatchOffers, failedChunk \in FailedChunks :
          FindUsersWithMatchingKeywords(offer, failedChunk)
    \/ Complete

SpecMatch == Init /\ [][NextMatch]_vars

----------------------------------------------------------------------------
(* C20 *)

\* C20: the result of the match engine holds at most one entry for each
\* user and match type, also when two keyword favorites of the user match
\* the offer through different candidates.
C20_AtMostOneEntryPerUserAndType ==
    (response # None /\ "matches" \in DOMAIN Get(response))
    => \A i, j \in DOMAIN Get(response).matches :
          (/\ Get(response).matches[i].userId = Get(response).matches[j].userId
           /\ Get(response).matches[i].matchType = Get(response).matches[j].matchType)
          => i = j

----------------------------------------------------------------------------
(* C21 *)

\* The run of the match engine the state holds: its offer and its result
Matched == response # None /\ "matches" \in DOMAIN Get(response)

\* The keyword favorites whose key is a candidate of the offer of the run
CandidateFavorites ==
    {f \in favorites :
        /\ f.type = "keyword"
        /\ \E i \in DOMAIN Candidates(Get(request).titleWords, Get(request).rawTitle) :
              LowerPhrase(f.key) =
                  LowerPhrase(Candidates(Get(request).titleWords, Get(request).rawTitle)[i])}

\* Every filter the favorite specifies is satisfied by a value of the offer
FiltersSatisfied(f, offer) ==
    /\ IsSome(f.category)
          => /\ IsSome(offer.offerCategory)
             /\ toLowerCase(Get(f.category)) = toLowerCase(Get(offer.offerCategory))
    /\ IsSome(f.store)
          => /\ IsSome(offer.offerStore)
             /\ toLowerCase(Get(f.store)) = toLowerCase(Get(offer.offerStore))
    /\ IsSome(f.min_price)
          => IsSome(offer.offerPrice) /\ Get(offer.offerPrice) >= Get(f.min_price)
    /\ IsSome(f.max_price)
          => IsSome(offer.offerPrice) /\ Get(offer.offerPrice) <= Get(f.max_price)
    /\ IsSome(f.min_discount)
          => IsSome(offer.offerDiscount) /\ Get(offer.offerDiscount) >= Get(f.min_discount)

\* C21: a keyword favorite whose key is a candidate is in the result exactly
\* when every filter it specifies is satisfied by the offer; an offer that
\* lacks the value a filter is about does not match that favorite.
C21_MatchIffEveryFilterSatisfied ==
    Matched
    => \A f \in CandidateFavorites :
          (\E i \in DOMAIN Get(response).matches :
              /\ Get(response).matches[i].favoriteId = f.id
              /\ Get(response).matches[i].matchType = "keyword")
          <=> FiltersSatisfied(f, Get(request))

----------------------------------------------------------------------------
(* C22 *)

\* The elements of a sequence
Range(s) == {s[i] : i \in DOMAIN s}

\* The first five distinct lower-case words of more than three characters
LongWords(title) ==
    Slice(Unique(SelectSeq(LowerPhrase(title), LAMBDA w : WordLength(w) > 3)), 5)

\* The first n phrases of k consecutive words of the title, in lower case
Phrases(title, k, n) ==
    {LowerPhrase(SubSeq(title, i, i + k - 1)) :
        i \in {j \in 1..Len(title) : j + k - 1 <= Len(title) /\ j <= n}}

\* C22: the candidate keys of a title are the first five distinct words of
\* more than three characters, each in lower case and capitalized, the first
\* five two-word phrases and the first three three-word phrases; a word of
\* three characters or fewer is no single-word candidate.
C22_CandidateKeys ==
    Matched
    => Range(Candidates(Get(request).titleWords, Get(request).rawTitle))
       = {<<w>> : w \in Range(LongWords(Get(request).rawTitle))}
         \cup {<<Capitalize(w)>> : w \in Range(LongWords(Get(request).rawTitle))}
         \cup Phrases(Get(request).rawTitle, 2, 5)
         \cup Phrases(Get(request).rawTitle, 3, 3)

----------------------------------------------------------------------------
(* C23 *)

\* The query of one chunk of candidates failed during the run
ChunkFailed ==
    /\ response # None
    /\ "failedChunk" \in DOMAIN Get(response)
    /\ Get(response).failedChunk >= 1
    /\ Get(response).failedChunk
          <= ChunkCount(Candidates(Get(request).titleWords, Get(request).rawTitle))

\* C23: when the lookup of one chunk of candidates fails, the match engine
\* raises nothing and returns a result that still holds the match of every
\* product favorite of the offer.
C23_FailedChunkIsEmptyResult ==
    ChunkFailed
    => /\ Matched
       /\ \A f \in favorites :
             (f.type = "offer" /\ f.key = <<Get(request).offerId>>)
             => \E i \in DOMAIN Get(response).matches :
                   Get(response).matches[i].favoriteId = f.id

----------------------------------------------------------------------------
(* Fan-out, retraction and read marks, as operations of their own *)

\* The receipts the SELECT of withdrawNotificationById returns
WithdrawRowsById(st, notificationId) ==
    {un \in st.users_notifications :
        /\ ~un.withdrawn
        /\ un.notification_id = notificationId
        /\ \E n \in st.notifications : n.id = notificationId}

withdrawNotificationById(st, notificationId, fail) ==
    LET rows == WithdrawRowsById(st, notificationId)
        notificationIds == {r.notification_id : r \in rows}
    IN  IF fail
        THEN [success |-> FALSE, updated |-> 0, rows |-> {}, st |-> st]
        ELSE [success |-> TRUE,
              updated |-> Cardinality(notificationIds),
              rows    |-> rows,
              st      |-> [st EXCEPT !.users_notifications =
                              {IF un.notification_id \in notificationIds
                               THEN [un EXCEPT !.withdrawn = TRUE] ELSE un : un \in @}]]

\* withdrawNotificationByIdFanout: as withdrawOfferNotifications, but its
\* partial-failure log line reads recipients.length and does not throw
withdrawNotificationByIdFanout(st, notificationId, env) ==
    LET res == withdrawNotificationById(Call(st, "withdrawNotificationByIdFanout"),
                                        notificationId, env.wdFail)
        recipients == {r \in res.rows : users[r.uid].token_fcm}
        delivered == {r \in recipients : r.uid \in env.sendOk}
    IN  IF ~res.success
        THEN [st |-> res.st, result |-> Some([updated |-> 0, sent |-> 0])]
        ELSE IF ~env.creds
        THEN [st |-> res.st, result |-> Some([updated |-> res.updated, sent |-> 0])]
        ELSE [st |-> [res.st EXCEPT !.sent = @ \cup
                         {[kind |-> "retract", uid |-> r.uid,
                           notification_id |-> r.notification_id, n |-> r.n,
                           options |-> NoOptions] : r \in delivered}],
              result |-> Some([updated |-> res.updated, sent |-> Cardinality(delivered)])]

\* routes/api.js: POST /retract-notification
retractNotification(st, notificationId, env) ==
    IF notificationId = 0
    THEN [st |-> st, status |-> 400, result |-> None]
    ELSE IF ~env.creds
    THEN [st |-> st, status |-> 500, result |-> None]
    ELSE LET outcome == withdrawNotificationByIdFanout(st, notificationId, env)
         IN  [st |-> outcome.st, status |-> 200, result |-> outcome.result]

\* A read mark that also clears the withdrawal
markNotificationRead_Reactivates(table, uid, notificationId) ==
    {IF un.uid = uid /\ un.notification_id = notificationId
     THEN [un EXCEPT !.read = TRUE, !.withdrawn = FALSE] ELSE un : un \in table}

\* UPDATE users_notifications SET read = true WHERE uid = $1 AND
\* notification_id = $2 AND withdrawn = false AND read = false
markNotificationRead(table, uid, notificationId) ==
    {IF un.uid = uid /\ un.notification_id = notificationId /\ ~un.withdrawn /\ ~un.read
     THEN [un EXCEPT !.read = TRUE] ELSE un : un \in table}

markAllNotificationsRead(table, uid) ==
    {IF un.uid = uid /\ ~un.withdrawn /\ ~un.read
     THEN [un EXCEPT !.read = TRUE] ELSE un : un \in table}

\* The recipients lists, the offers, the notification ids and the
\* environments the operations are run on
RecipientLists == {<<"u1">>, <<"u1", "u2">>}

NotifyOffers == {"o1", "o2"}

NotificationIds == 0..MaxNotifSeq

\* what can go wrong in a fan-out, and in a retraction
NotifyEnvs ==
    {NominalEnv, [NominalEnv EXCEPT !.notifInsertFail = TRUE]}
    \cup {[NominalEnv EXCEPT !.sendOk = ok] : ok \in {{}, {"u2"}}}

SuperOfferEnvs == {[NominalEnv EXCEPT !.sendOk = ok] : ok \in {Users, {}, {"u2"}}}

RetractEnvs ==
    {NominalEnv, [NominalEnv EXCEPT !.creds = FALSE], [NominalEnv EXCEPT !.wdFail = TRUE]}
    \cup {[NominalEnv EXCEPT !.sendOk = ok] : ok \in {{}, {"u2"}}}

\* The settings of a user: everything on, no device token, or product
\* favorites off
UserSettings ==
    {[token_fcm |-> t, superoffers |-> TRUE, favorites_products |-> fp,
      favorites_searches |-> TRUE] : t \in BOOLEAN, fp \in BOOLEAN} \
    {[token_fcm |-> FALSE, superoffers |-> TRUE, favorites_products |-> FALSE,
      favorites_searches |-> TRUE]}

\* u1 with each of the settings, u2 with everything on
UsersTables ==
    {[u \in Users |-> IF u = "u1" THEN v
                      ELSE [token_fcm |-> TRUE, superoffers |-> TRUE,
                            favorites_products |-> TRUE, favorites_searches |-> TRUE]] :
        v \in UserSettings}

InitNotify ==
    /\ offers = {}
    /\ favorites = {}
    /\ notifications = {}
    /\ users_notifications = {}
    /\ notifSeq = 0
    /\ users \in UsersTables
    /\ now = 0
    /\ request = None
    /\ response = None
    /\ inflight = [h \in Handlers |-> IdleHandler]

\* One fan-out of a favorites notification
NotifyUsersAboutOffer(userIds, offerId, env) ==
    /\ Idle
    /\ \E st \in {notifyUsersAboutOffer(St0, userIds, offerId, env, NoOptions)} :
          /\ st.notifSeq <= MaxNotifSeq
          /\ notifications' = st.notifications
          /\ users_notifications' = st.users_notifications
          /\ notifSeq' = st.notifSeq
          /\ request' = Some([op |-> "notify", userIds |-> userIds, key |-> offerId])
          /\ response' = Some([op |-> "notify", env |-> env, sent |-> st.sent,
                               notificationId |-> IF env.notifInsertFail THEN 0 ELSE st.notifSeq])
    /\ UNCHANGED <<inflight, offers, favorites, users, now>>

\* One super-offer broadcast
SendSuperOfferNotification(offerId, env) ==
    /\ Idle
    /\ \E st \in {sendSuperOfferNotification(St0, offerId, env)} :
          /\ notifications' = st.notifications
          /\ users_notifications' = st.users_notifications
          /\ request' = Some([op |-> "superoffer", key |-> offerId])
          /\ response' = Some([op |-> "superoffer", env |-> env, sent |-> st.sent])
    /\ UNCHANGED <<inflight, offers, favorites, notifSeq, users, now>>

\* One retraction by offer id
WithdrawOfferNotifications(offerId, env) ==
    /\ Idle
    /\ \E r \in {withdrawOfferNotifications(St0, offerId, env)} :
          /\ users_notifications' = r.st.users_notifications
          /\ request' = Some([op |-> "retractOffer", key |-> offerId])
          /\ response' = Some([op |-> "retractOffer", env |-> env, sent |-> r.st.sent,
                               result |-> r.result])
    /\ UNCHANGED <<inflight, offers, favorites, notifications, notifSeq, users, now>>

\* One POST /retract-notification
RetractNotification(notificationId, env) ==
    /\ Idle
    /\ \E r \in {retractNotification(St0, notificationId, env)} :
          /\ users_notifications' = r.st.users_notifications
          /\ request' = Some([op |-> "retractNotification", key |-> notificationId])
          /\ response' = Some([op |-> "retractNotification", env |-> env, sent |-> r.st.sent,
                               status |-> r.status, result |-> r.result])
    /\ UNCHANGED <<inflight, offers, favorites, notifications, notifSeq, users, now>>

\* One POST /notifications-read, of one notification or of all
MarkNotificationRead(uid, notificationId) ==
    /\ Idle
    /\ users_notifications' = markNotificationRead(users_notifications, uid, notificationId)
    /\ users_notifications' # users_notifications
    /\ UNCHANGED <<inflight, offers, favorites, notifications, notifSeq, users, now,
                   request, response>>

MarkAllNotificationsRead(uid) ==
    /\ Idle
    /\ users_notifications' = markAllNotificationsRead(users_notifications, uid)
    /\ users_notifications' # users_notifications
    /\ UNCHANGED <<inflight, offers, favorites, notifications, notifSeq, users, now,
                   request, response>>

\* The events taken in between: the offer o1 is created, reported deleted,
\* restored and deleted by one channel
NotifyRequests ==
    {Request(ty, p) : ty \in {"POST_CREATED", "POST_EDITED"},
                      p \in {Post("o1", "c1", HighChannel1),
                             [Post("o1", "c1", HighChannel1) EXCEPT !.is_deleted = Some(TRUE)]}}
    \cup {Request("POST_DELETED", Post("o1", "c1", HighChannel1))}

NextNotify ==
    \/ \E req \in NotifyRequests : Receive(req)
    \/ ManageOffer({NominalEnv})
    \/ FavoritesAdd("u1", "o1")
    \/ \E userIds \in RecipientLists, offerId \in NotifyOffers, env \in NotifyEnvs :
          NotifyUsersAboutOffer(userIds, offerId, env)
    \/ \E env \in SuperOfferEnvs : SendSuperOfferNotification("o1", env)
    \/ \E offerId \in NotifyOffers, env \in RetractEnvs : WithdrawOfferNotifications(offerId, env)
    \/ \E id \in NotificationIds, env \in RetractEnvs : RetractNotification(id, env)
    \/ \E uid \in Users, id \in NotificationIds : MarkNotificationRead(uid, id)
    \/ \E uid \in Users : MarkAllNotificationsRead(uid)
    \/ Complete

SpecNotify == InitNotify /\ [][NextNotify]_vars

----------------------------------------------------------------------------
(* C24 *)

\* The step in which the operation op is carried out
Served(op) ==
    /\ response = None
    /\ response' # None
    /\ "op" \in DOMAIN Get(response')
    /\ Get(response').op = op

\* The receipts the step creates
NewReceipts == users_notifications' \ users_notifications

\* The pushes the dispatch delivered
Pushes == {m \in Get(response').sent : m.kind = "push"}

\* C24: the receipts a fan-out creates are one for each delivered push,
\* tied to the one notification record of the dispatch, and none for a
\* recipient whose send failed or was skipped.
C24_OneReceiptPerSuccessfulSend ==
    [][Served("notify")
       => /\ \A m \in Pushes :
                Cardinality({un \in NewReceipts : un.uid = m.uid /\ un.n = m.n}) = 1
          /\ \A un \in NewReceipts :
                /\ \E m \in Pushes : m.uid = un.uid /\ m.n = un.n
                /\ un.notification_id = Get(response').notificationId
                /\ \E n \in notifications' \ notifications : n.id = un.notification_id
                /\ ~un.withdrawn]_vars

----------------------------------------------------------------------------
(* C25 *)

\* The recipient at position i of the dispatch can be sent to: push is
\* allowed by the settings and a device token is known
Reachable(i) ==
    /\ shouldSendNotification(Get(request').userIds[i], "product")
    /\ users[Get(request').userIds[i]].token_fcm

\* C25: in a fan-out the outcome of a recipient depends on its own send
\* alone: whatever the other sends do, a recipient whose send succeeds gets
\* its push and its receipt, one whose send fails gets neither, and the
\* dispatch comes back also when no send succeeds; the same holds of the
\* pushes of a super-offer broadcast.
C25_SendFailuresAreIndependent ==
    [][/\ Served("notify")
          => \A i \in DOMAIN Get(request').userIds :
                /\ (\E m \in Pushes : m.n = i)
                      <=> (Reachable(i) /\ Get(request').userIds[i] \in Get(response').env.sendOk)
                /\ ~Get(response').env.notifInsertFail
                      => ((\E un \in NewReceipts : un.n = i /\ un.uid = Get(request').userIds[i])
                            <=> (\E m \in Pushes : m.n = i))
       /\ Served("superoffer")
          => \A u \in Users :
                (\E m \in Get(response').sent : m.kind = "superoffer" /\ m.uid = u)
                <=> (users[u].superoffers /\ users[u].token_fcm
                        /\ u \in Get(response').env.sendOk)]_vars

\* A dispatch to two recipients in which the first send failed and the
\* second recipient has its push and its receipt
C25_Witness ==
    /\ response # None
    /\ "op" \in DOMAIN Get(response)
    /\ Get(response).op = "notify"
    /\ Get(request).userIds = <<"u1", "u2">>
    /\ users["u1"].token_fcm /\ users["u1"].favorites_products
    /\ "u1" \notin Get(response).env.sendOk
    /\ \E m \in Get(response).sent : m.kind = "push" /\ m.uid = "u2"
    /\ ~\E m \in Get(response).sent : m.uid = "u1"
    /\ \E un \in users_notifications :
          un.uid = "u2" /\ un.notification_id = Get(response).notificationId

----------------------------------------------------------------------------
(* C26 *)

\* The non-withdrawn receipts a retraction with this key looks up
Matching(table, op, key) ==
    IF op = "retractOffer"
    THEN {un \in table : ~un.withdrawn
              /\ \E n \in notifications : n.id = un.notification_id /\ n.offer_id = key}
    ELSE {un \in table : ~un.withdrawn /\ un.notification_id = key
              /\ \E n \in notifications : n.id = key}

\* Which receipts they are: recipient, notification and position in the dispatch
ReceiptIds(rows) == {<<un.uid, un.notification_id, un.n>> : un \in rows}

\* The step carries out a retraction, by offer id or by notification id,
\* whose lookup and update went through
Retracted ==
    /\ Served("retractOffer") \/ Served("retractNotification")
    /\ ~Get(response').env.wdFail
    /\ Served("retractNotification") => Get(response').status = 200

\* The step dispatches a favorites notification, on its own or while an
\* event is handled
FanOut ==
    \/ Served("notify")
    \/ Handled /\ "dispatched" \in DOMAIN Get(response') /\ Get(response').dispatched # <<>>

\* C26: a retraction that went through leaves no non-withdrawn receipt
\* under its key, only a fan-out brings new ones, and a retraction that
\* finds none changes no receipt, sends no retract message and reports
\* zero updated and zero sent.
C26_RetractionIsIdempotent ==
    [][/\ Retracted
          => Matching(users_notifications', Get(request').op, Get(request').key) = {}
       /\ ~FanOut
          => /\ \A key \in NotifyOffers :
                   ReceiptIds(Matching(users_notifications', "retractOffer", key))
                       \subseteq ReceiptIds(Matching(users_notifications, "retractOffer", key))
             /\ \A key \in NotificationIds :
                   ReceiptIds(Matching(users_notifications', "retractNotification", key))
                       \subseteq ReceiptIds(Matching(users_notifications, "retractNotification", key))
       /\ (Retracted /\ Matching(users_notifications, Get(request').op, Get(request').key) = {})
          => /\ users_notifications' = users_notifications
             /\ Get(response').sent = {}
             /\ Get(response').result = Some([updated |-> 0, sent |-> 0])]_vars

\* A second retraction of an offer has found its receipts withdrawn and
\* reported zero and zero
C26_Witness ==
    /\ response # None
    /\ "op" \in DOMAIN Get(response)
    /\ Get(response).op = "retractOffer"
    /\ ~Get(response).env.wdFail
    /\ Get(response).result = Some([updated |-> 0, sent |-> 0])
    /\ \E un \in users_notifications :
          /\ un.withdrawn
          /\ \E n \in notifications :
                n.id = un.notification_id /\ n.offer_id = Get(request).key

----------------------------------------------------------------------------
(* C27 *)

\* The receipts the step moves from non-withdrawn to withdrawn
Withdrawn ==
    {id \in ReceiptIds({un \in users_notifications : ~un.withdrawn}) :
        id \in ReceiptIds({un \in users_notifications' : un.withdrawn})}

\* C27: the result a retraction returns counts, as updated, the receipts
\* the call moved from non-withdrawn to withdrawn and, as sent, the retract
\* messages delivered; with no matching receipt it is zero and zero.
C27_ResultCountsReceiptsAndSends ==
    [][(Retracted /\ Get(response').result # None)
       => /\ Get(Get(response').result).updated = Cardinality(Withdrawn)
          /\ Get(Get(response').result).sent
                = Cardinality({m \in Get(response').sent : m.kind = "retract"})]_vars

----------------------------------------------------------------------------
(* C28 *)

\* C28: a retraction made while no delivery credentials are available, by
\* offer id or by notification id, still withdraws every matching receipt,
\* sends no retract message and comes back with a result whose sent is 0,
\* not with an error.
C28_NoCredentialsStillWithdraws ==
    [][/\ (Served("retractOffer") /\ ~Get(response').env.creds /\ ~Get(response').env.wdFail)
          => /\ Matching(users_notifications', "retractOffer", Get(request').key) = {}
             /\ Get(response').sent = {}
             /\ Get(response').result # None
             /\ Get(Get(response').result).sent = 0
       /\ (Served("retractNotification") /\ ~Get(response').env.creds
              /\ ~Get(response').env.wdFail /\ Get(request').key # 0)
          => /\ Matching(users_notifications', "retractNotification", Get(request').key) = {}
             /\ Get(response').sent = {}
             /\ Get(response').status = 200
             /\ Get(response').result # None
             /\ Get(Get(response').result).sent = 0]_vars

----------------------------------------------------------------------------
(* C29 *)

\* The receipts of the retraction whose retract message could not be
\* delivered, and those whose message could
FailedSends ==
    {un \in Matching(users_notifications, Get(request').op, Get(request').key) :
        users[un.uid].token_fcm /\ un.uid \notin Get(response').env.sendOk}

GoodSends ==
    {un \in Matching(users_notifications, Get(request').op, Get(request').key) :
        users[un.uid].token_fcm /\ un.uid \in Get(response').env.sendOk}

\* C29: a retraction some of whose sends fail keeps the withdrawal, still
\* delivers the other retract messages and comes back with its result,
\* sent counting the delivered messages, instead of raising an error.
C29_FailedRetractSendsAreTolerated ==
    [][(Retracted /\ Get(response').env.creds /\ FailedSends # {})
       => /\ Matching(users_notifications', Get(request').op, Get(request').key) = {}
          /\ \A un \in GoodSends :
                \E m \in Get(response').sent :
                    m.kind = "retract" /\ m.uid = un.uid /\ m.n = un.n
          /\ Get(response').result # None
          /\ Get(Get(response').result).sent = Cardinality(GoodSends)]_vars

----------------------------------------------------------------------------
(* C30 *)

----------------------------------------------------------------------------
(* C31 *)

\* The step retracts: a retraction by offer id or by notification id, or
\* the handling of an event that calls withdrawOfferNotifications
RetractionStep ==
    \/ Served("retractOffer")
    \/ Served("retractNotification")
    \/ Handled /\ "calls" \in DOMAIN Get(response')
               /\ \E i \in DOMAIN Get(response').calls :
                     Get(response').calls[i] = "withdrawOfferNotifications"

\* The step marks notifications read: the receipts change and no request
\* is taken or answered
ReadMarkStep ==
    /\ request' = request
    /\ response' = response
    /\ users_notifications' # users_notifications

\* The receipt un after the step
After(un) ==
    {nx \in users_notifications' :
        nx.uid = un.uid /\ nx.notification_id = un.notification_id /\ nx.n = un.n}

\* C31: the read flag and the withdrawn flag of a receipt are independent:
\* a retraction leaves the read flag of every receipt as it was, and marking
\* read, one notification or all, leaves the withdrawn flag of every receipt
\* as it was.
C31_ReadAndWithdrawnAreIndependent ==
    [][/\ RetractionStep
          => \A un \in users_notifications :
                After(un) # {} /\ \A nx \in After(un) : nx.read = un.read
       /\ ReadMarkStep
          => \A un \in users_notifications :
                After(un) # {} /\ \A nx \in After(un) : nx.withdrawn = un.withdrawn]_vars

\* A retraction by offer id has withdrawn a receipt that had been read
C31_Witness ==
    /\ response # None
    /\ "op" \in DOMAIN Get(response)
    /\ Get(response).op = "retractOffer"
    /\ Get(response).sent # {}
    /\ \E un \in users_notifications :
          /\ un.read /\ un.withdrawn
          /\ \E n \in notifications :
                n.id = un.notification_id /\ n.offer_id = Get(request).key

----------------------------------------------------------------------------
(* Pool connections and send tasks.  An operation is the list of its       *)
(* blocks: a block is either `const client = await getPool().connect();    *)
(* try { queries } [catch] finally { client.release() }` or the sends      *)
(* `recipients.map(async ...)` followed by `await Promise.allSettled`.     *)
(* Every await is a step; the variable inflight holds the operation that   *)
(* runs, its position, its send tasks and the number of connections that   *)
(* are checked out of the pool.                                            *)

\* A block that takes a connection for `queries` queries; catch: the block
\* swallows a failed query.  when: the condition under which it is entered.
Db(queries, catch, when) ==
    [kind |-> "db", queries |-> queries, catch |-> catch, when |-> when, tasks |-> "-"]

\* The sends block; tasks: what a task does before its send
Sends(tasks, when) ==
    [kind |-> "sends", queries |-> 0, catch |-> TRUE, when |-> when, tasks |-> tasks]

PoolOps ==
    {"getOfferByCode", "insertOrUpdateOffer", "markOfferDeleted", "hasOfferBeenNotified",
     "findUsersWithMatchingKeywords", "notifyUsersAboutOffer",
     "sendSuperOfferNotification", "withdrawOfferNotifications", "sendNotificationInternal"}

\* The blocks of each operation, in the order of the code
Program(op) ==
    CASE op = "getOfferByCode" ->
            \* one SELECT; try/finally
            <<Db(1, FALSE, "always")>>
      [] op = "markOfferDeleted" ->
            \* one UPDATE; try/finally
            <<Db(1, FALSE, "always")>>
      [] op = "hasOfferBeenNotified" ->
            \* one SELECT; try/catch/finally
            <<Db(1, TRUE, "always")>>
      [] op = "insertOrUpdateOffer" ->
            \* SELECT 1, then INSERT or UPDATE; try/finally
            <<Db(2, FALSE, "always")>>
      [] op = "findUsersWithMatchingKeywords" ->
            \* the query of a chunk of candidates, the product favorites; try/finally
            <<Db(2, FALSE, "always")>>
      [] op = "notifyUsersAboutOffer" ->
            \* INSERT notifications; SELECT favorites (reasons); the tasks;
            \* createFirestoreNotificationDoc; INSERT users_notifications
            <<Db(1, TRUE, "always"), Db(1, TRUE, "always"), Sends("lookups", "always"),
              Db(1, TRUE, "notified"), Db(1, TRUE, "receipts")>>
      [] op = "sendSuperOfferNotification" ->
            \* SELECT recipients; the sends; createFirestoreNotificationDoc
            <<Db(1, TRUE, "always"), Sends("direct", "fetched"), Db(1, TRUE, "notified")>>
      [] op = "withdrawOfferNotifications" ->
            \* withdrawNotificationsForOffer (SELECT, UPDATE); the sends
            <<Db(2, TRUE, "always"), Sends("direct", "fetched")>>
      [] op = "sendNotificationInternal" ->
            \* SELECT recipients; INSERT notifications; the sends; INSERT users_notifications
            <<Db(1, FALSE, "always"), Db(1, FALSE, "always"), Sends("direct", "always"),
              Db(1, FALSE, "notified")>>

\* The recipients of the sends
PoolRecipients == {"u1", "u2"}

NoTask == [stage |-> "none", step |-> "-", outcome |-> "-", sent |-> FALSE]

\* No operation runs and no connection is checked out
IdleOp ==
    [op |-> "", status |-> "idle", blk |-> 0, step |-> "-", q |-> 0, failed |-> FALSE,
     okBlocks |-> {}, notified |-> FALSE, creds |-> TRUE,
     tasks |-> [u \in PoolRecipients |-> NoTask], pool |-> 0]

\* client.release() in the finally of a block that failed or did not
\* (a release that is left out when the query failed)
release_OnlyOnSuccess(pool, failed) == IF failed THEN pool ELSE pool - 1

\* client.release() in the finally of a block
release(pool, failed) == pool - 1

\* A helper that keeps its connection when it returns
releaseQuietly_Never(pool, failed) == pool

\* try { client.release(); } catch (_) {} in the finally of
\* getUserPreferences and getUserFcmToken
releaseQuietly(pool, failed) == pool - 1

\* Tasks run one after the other, as in a loop that awaits each send
Runnable_InOrder(tasks, u) ==
    \A v \in PoolRecipients : (v # u /\ v = "u1") => tasks[v].stage = "done"

\* recipients.map(x => (async () => {...})()): every task is started by the
\* map and runs on its own, whatever the other tasks do
Runnable(tasks, u) == TRUE

\* The condition of a block, `if (notified.length > 0)`, `if (notificationId)`,
\* `if (!res.success) return`, `if (!projectId || !token) return`
When(o, w) ==
    CASE w = "always" -> TRUE
      [] w = "fetched" -> (o.blk - 1) \in o.okBlocks /\ o.creds
      [] w = "notified" -> o.notified
      [] w = "receipts" -> o.notified /\ 1 \in o.okBlocks

Running == inflight.status = "running"

AtBlock == Running /\ inflight.blk <= Len(Program(inflight.op))

Cur == Program(inflight.op)[inflight.blk]

PoolFrame ==
    UNCHANGED <<offers, favorites, notifications, users_notifications, notifSeq,
                users, now, request, response>>

InitPool ==
    /\ offers = {}
    /\ favorites = {}
    /\ notifications = {}
    /\ users_notifications = {}
    /\ notifSeq = 0
    /\ users = [u \in Users |-> [token_fcm |-> TRUE, superoffers |-> TRUE,
                                 favorites_products |-> TRUE, favorites_searches |-> TRUE]]
    /\ now = 0
    /\ request = None
    /\ response = None
    /\ inflight = IdleOp

\* An operation is called; creds: projectId and token are given
PoolStart(op, creds) ==
    /\ ~Running
    /\ creds \/ op = "withdrawOfferNotifications"
    /\ inflight' = [IdleOp EXCEPT !.op = op, !.status = "running", !.blk = 1,
                                  !.step = "enter", !.creds = creds,
                                  !.pool = inflight.pool]
    /\ PoolFrame

\* The condition of the block is false
PoolSkip ==
    /\ AtBlock /\ inflight.step = "enter"
    /\ ~When(inflight, Cur.when)
    /\ inflight' = [inflight EXCEPT !.blk = @ + 1]
    /\ PoolFrame

\* const client = await getPool().connect()
PoolConnect ==
    /\ AtBlock /\ inflight.step = "enter"
    /\ Cur.kind = "db" /\ When(inflight, Cur.when)
    /\ inflight' = [inflight EXCEPT !.pool = @ + 1, !.step = "query", !.q = 0,
                                    !.failed = FALSE]
    /\ PoolFrame

\* await client.query(...): it resolves or it rejects
PoolQuery(ok) ==
    /\ AtBlock /\ inflight.step = "query"
    /\ inflight' = IF ok
                   THEN [inflight EXCEPT !.q = @ + 1,
                            !.step = IF inflight.q + 1 = Cur.queries THEN "release" ELSE "query"]
                   ELSE [inflight EXCEPT !.failed = TRUE, !.step = "release"]
    /\ PoolFrame

\* finally { client.release() }, then the next block, or the error goes on
\* to the caller
PoolRelease ==
    /\ AtBlock /\ inflight.step = "release"
    /\ inflight' =
          IF inflight.failed /\ ~Cur.catch
          THEN [inflight EXCEPT !.pool = release(@, inflight.failed),
                                !.status = "thrown", !.step = "-"]
          ELSE [inflight EXCEPT !.pool = release(@, inflight.failed),
                                !.blk = @ + 1, !.step = "enter",
                                !.okBlocks = IF inflight.failed THEN @ ELSE @ \cup {inflight.blk}]
    /\ PoolFrame

\* const tasks = recipients.map(...): every task is started
PoolSpawn ==
    /\ AtBlock /\ inflight.step = "enter"
    /\ Cur.kind = "sends" /\ When(inflight, Cur.when)
    /\ inflight' = [inflight EXCEPT
          !.step = "await",
          !.tasks = [u \in PoolRecipients |->
                        IF Cur.tasks = "lookups"
                        THEN [NoTask EXCEPT !.stage = "prefs", !.step = "connect"]
                        ELSE [NoTask EXCEPT !.stage = "send", !.step = "issue"]]]
    /\ PoolFrame

\* getUserPreferences / getUserFcmToken of the task of u: connect
TaskConnect(u) ==
    /\ Running /\ Runnable(inflight.tasks, u)
    /\ inflight.tasks[u].stage \in {"prefs", "token"} /\ inflight.tasks[u].step = "connect"
    /\ inflight' = [inflight EXCEPT !.pool = @ + 1, !.tasks[u].step = "query"]
    /\ PoolFrame

\* its query: a row that lets the task go on, none (null is returned), or
\* an error (caught, null is returned)
TaskQuery(u, outcome) ==
    /\ Running /\ Runnable(inflight.tasks, u)
    /\ inflight.tasks[u].step = "query"
    /\ inflight' = [inflight EXCEPT !.tasks[u].step = "release", !.tasks[u].outcome = outcome]
    /\ PoolFrame

\* its finally { client.release() }
TaskRelease(u) ==
    /\ Running /\ Runnable(inflight.tasks, u)
    /\ inflight.tasks[u].step = "release"
    /\ inflight' = [inflight EXCEPT
          !.pool = releaseQuietly(@, inflight.tasks[u].outcome = "error"),
          !.tasks[u] = IF inflight.tasks[u].outcome # "row"
                       THEN [NoTask EXCEPT !.stage = "done"]
                       ELSE IF inflight.tasks[u].stage = "prefs"
                       THEN [NoTask EXCEPT !.stage = "token", !.step = "connect"]
                       ELSE [NoTask EXCEPT !.stage = "send", !.step = "issue"]]
    /\ PoolFrame

\* sendNotificationToToken / sendDataMessageToToken: the request leaves
TaskIssue(u) ==
    /\ Running /\ Runnable(inflight.tasks, u)
    /\ inflight.tasks[u].stage = "send" /\ inflight.tasks[u].step = "issue"
    /\ inflight' = [inflight EXCEPT !.tasks[u].step = "inflight"]
    /\ PoolFrame

\* the provider answers, or the request fails
TaskSettle(u, ok) ==
    /\ Running
    /\ inflight.tasks[u].stage = "send" /\ inflight.tasks[u].step = "inflight"
    /\ inflight' = [inflight EXCEPT !.tasks[u] = [NoTask EXCEPT !.stage = "done", !.sent = ok]]
    /\ PoolFrame

\* await Promise.allSettled(tasks) resolves
PoolAwait ==
    /\ AtBlock /\ inflight.step = "await"
    /\ \A u \in PoolRecipients : inflight.tasks[u].stage = "done"
    /\ inflight' = [inflight EXCEPT !.blk = @ + 1, !.step = "enter",
                                    !.notified = \E u \in PoolRecipients : inflight.tasks[u].sent]
    /\ PoolFrame

\* return
PoolReturn ==
    /\ Running /\ inflight.blk > Len(Program(inflight.op))
    /\ inflight' = [inflight EXCEPT !.status = "returned", !.step = "-"]
    /\ PoolFrame

\* A step of the task of u
TaskStep(u) ==
    \/ TaskConnect(u)
    \/ \E outcome \in {"row", "none", "error"} : TaskQuery(u, outcome)
    \/ TaskRelease(u)
    \/ TaskIssue(u)

NextPool ==
    \/ \E op \in PoolOps, creds \in BOOLEAN : PoolStart(op, creds)
    \/ PoolSkip
    \/ PoolConnect
    \/ \E ok \in BOOLEAN : PoolQuery(ok)
    \/ PoolRelease
    \/ PoolSpawn
    \/ \E u \in PoolRecipients : TaskStep(u)
    \/ \E u \in PoolRecipients, ok \in BOOLEAN : TaskSettle(u, ok)
    \/ PoolAwait
    \/ PoolReturn

SpecPool == InitPool /\ [][NextPool]_vars

----------------------------------------------------------------------------
(* C32 *)

\* C32: when an operation has completed, by returning or by an error, no
\* connection is checked out of the pool, whatever queries failed on the
\* way and however many operations ran before.
C32_NoConnectionOutlivesItsOperation ==
    ~Running => inflight.pool = 0

\* An operation has ended with the error of a failed query
C32_Witness ==
    /\ inflight.status = "thrown"
    /\ inflight.failed
    /\ inflight.pool = 0

----------------------------------------------------------------------------
(* C33 *)

\* A send to the notification provider is in flight
SendInFlight == \E u \in PoolRecipients : inflight.tasks[u].step = "inflight"

\* The connections that the lookups of the tasks hold
LookupConnections ==
    Cardinality({u \in PoolRecipients :
                    /\ inflight.tasks[u].stage \in {"prefs", "token"}
                    /\ inflight.tasks[u].step \in {"query", "release"}})

\* C33 as stated: while a send to the notification provider is in flight,
\* no pool connection is checked out.
C33_Original_NoConnectionHeldDuringSend ==
    SendInFlight => inflight.pool = 0

\* C33: while a send to the notification provider is in flight, the only
\* connections checked out are those of the preference and token lookups of
\* other recipients of the same fan-out: what the operation acquired before
\* its sends is released before the first send leaves, what it uses after
\* them is acquired after the last send has completed, and the task whose
\* send is in flight has released the connections of its own lookups.  In a
\* super-offer broadcast, a retraction and an internal send, whose tasks
\* look nothing up, no connection is checked out.
C33_OnlyOtherRecipientsLookupsDuringSend ==
    SendInFlight
    => /\ inflight.pool = LookupConnections
       /\ inflight.op # "notifyUsersAboutOffer" => inflight.pool = 0

\* The push to u1 is in flight while the lookup of u2 holds a connection
C33_Witness ==
    /\ inflight.op = "notifyUsersAboutOffer"
    /\ inflight.tasks["u1"].step = "inflight"
    /\ inflight.tasks["u2"].stage = "token"
    /\ inflight.tasks["u2"].step = "query"
    /\ inflight.pool = 1

----------------------------------------------------------------------------
(* C36 *)

\* The operation is past its sends block
PastSends ==
    /\ inflight.status \in {"running", "returned"}
    /\ \E i \in 1..Len(Program(inflight.op)) :
          Program(inflight.op)[i].kind = "sends" /\ inflight.blk > i

\* The task of u has been started and has not issued its send yet
BeforeSend(u) ==
    inflight.tasks[u].stage \in {"prefs", "token", "send"} /\ inflight.tasks[u].step # "inflight"

\* C36: when the results of the sends are awaited every recipient's task
\* has been started; what follows the sends begins only when every task has
\* completed; and a task that has not issued its send yet can take its next
\* step whatever the other tasks do, so a send that never completes holds
\* back the batch and no other send.
C36_SendsAreStartedTogetherAndAwaitedAsAWhole ==
    /\ (Running /\ inflight.step = "await")
          => \A u \in PoolRecipients : inflight.tasks[u].stage # "none"
    /\ PastSends
          => \A u \in PoolRecipients : inflight.tasks[u].stage \in {"none", "done"}
    /\ \A u \in PoolRecipients :
          (Running /\ BeforeSend(u)) => ENABLED TaskStep(u)

\* The send to u1 is still in flight and u2 has its answer
C36_Witness ==
    /\ inflight.op \in {"notifyUsersAboutOffer", "withdrawOfferNotifications"}
    /\ inflight.step = "await"
    /\ inflight.tasks["u1"].step = "inflight"
    /\ inflight.tasks["u2"].stage = "done"
    /\ inflight.tasks["u2"].sent

----------------------------------------------------------------------------
(* C34 *)

\* The body of the last call answered
LastPost == Get(Get(request).post)

\* The active rows of a higher-priority channel that the last call answered,
\* an active event, found under its code when it went on from its lookup,
\* and that now belong to its own, lower-priority channel
OverwrittenHigherRows ==
    IF request = None \/ response = None THEN {}
    ELSE {r \in Get(response).before :
            /\ ~Truthy(LastPost.is_expired) /\ ~Truthy(LastPost.is_deleted)
            /\ r.code = LastPost.code
            /\ IsActiveRow(r)
            /\ Rank(r.channel_id) < Rank(Get(LastPost.channel_id))
            /\ \E q \in offers :
                  /\ q.offer_id = r.offer_id
                  /\ q.channel_id = Get(LastPost.channel_id)
                  /\ IsActiveRow(q)}

\* C34: the lookup by code and the write are separate steps of a call, and
\* two calls for one code interleave: the write of an active event of a
\* lower-priority channel lands on an active row of a higher-priority
\* channel, and leaves the row with the lower-priority channel, in the runs
\* (and only in the runs) in which the call's lookup was made before that row was
\* written; a call whose lookup returned the active higher-priority row
\* never overwrites it.
C34_LowerPriorityWriteLandsOnlyAfterStaleLookup ==
    \A r \in OverwrittenHigherRows : Get(response).existing # Some(r)

\* The event of the unranked channel, whose lookup had found no row, has
\* written over the active row that the event of the first channel wrote in
\* between
C34_Witness ==
    /\ OverwrittenHigherRows # {}
    /\ Get(response).existing = None
    /\ \A q \in RowsOfCode(offers, "c1") : q.channel_id = OtherChannel

----------------------------------------------------------------------------
(* A fan-out that runs while events are handled.  notifyUsersAboutOffer    *)
(* awaits its sends (Promise.allSettled) between the INSERT of its         *)
(* notifications row and the INSERT of its receipts: the call is split     *)
(* there.  The slot h1 of inflight holds the call that awaits its sends.   *)

\* The positions of userIds whose push is delivered
NotifiedPositions(userIds, env) ==
    {i \in 1..Len(userIds) :
        /\ shouldSendNotification(userIds[i], "product")
        /\ users[userIds[i]].token_fcm
        /\ userIds[i] \in env.sendOk}

\* notifyUsersAboutOffer up to `await Promise.allSettled(tasks)`
notifyUsersAboutOfferSends(st, userIds, offerId, env, options) ==
    LET inserted == ~env.notifInsertFail
        notificationId == IF inserted THEN st.notifSeq + 1 ELSE 0
        st1 == [Call(st, "notifyUsersAboutOffer") EXCEPT
                   !.dispatched = Append(@, options),
                   !.notifSeq = IF inserted THEN notificationId ELSE @,
                   !.notifications = IF inserted
                       THEN @ \cup {[id |-> notificationId, offer_id |-> offerId,
                                     created_at |-> now]}
                       ELSE @]
    IN  [st1 EXCEPT !.sent = @ \cup
            {[kind |-> "push", uid |-> userIds[i],
              notification_id |-> notificationId, n |-> i,
              options |-> options] : i \in NotifiedPositions(userIds, env)}]

\* notifyUsersAboutOffer from there on: createFirestoreNotificationDoc and
\* the receipts of the recipients notified
notifyUsersAboutOfferReceipts(st, userIds, offerId, notificationId, notified) ==
    IF notified = {} THEN st
    ELSE IF notificationId = 0 THEN createFirestoreNotificationDoc(st, offerId)
    ELSE [createFirestoreNotificationDoc(st, offerId) EXCEPT
             !.users_notifications = @ \cup
                 {[uid |-> userIds[i], notification_id |-> notificationId,
                   withdrawn |-> FALSE, read |-> FALSE, n |-> i] : i \in notified}]

\* The fan-out call's slot
FanOutSlot == "h1"

\* A fan-out about an offer is called, while no answer of an event stands,
\* and goes as far as its sends
FanOutSends(userIds, offerId, env) ==
    /\ inflight[FanOutSlot].pc = "idle"
    /\ response = None
    /\ \E st \in {notifyUsersAboutOfferSends(St0, userIds, offerId, env, NoOptions)} :
          /\ st.notifSeq <= MaxNotifSeq
          /\ notifications' = st.notifications
          /\ notifSeq' = st.notifSeq
          /\ inflight' = [inflight EXCEPT ![FanOutSlot] =
                [pc  |-> "sent",
                 req |-> Some([userIds |-> userIds, offerId |-> offerId,
                               notificationId |-> IF env.notifInsertFail THEN 0 ELSE st.notifSeq,
                               notified |-> NotifiedPositions(userIds, env)]),
                 existing |-> None]]
    /\ UNCHANGED <<offers, favorites, users_notifications, users, now, request, response>>

\* Its sends have settled: it writes its receipts and returns
FanOutReceipts ==
    /\ inflight[FanOutSlot].pc = "sent"
    /\ \E call \in {Get(inflight[FanOutSlot].req)} :
       \E st \in {notifyUsersAboutOfferReceipts(St0, call.userIds, call.offerId,
                                                call.notificationId, call.notified)} :
          /\ notifications' = st.notifications
          /\ users_notifications' = st.users_notifications
    /\ inflight' = [inflight EXCEPT ![FanOutSlot] = IdleHandler]
    /\ UNCHANGED <<offers, favorites, notifSeq, users, now, request, response>>

\* The events: offer o1 is created, then reported deleted, by the first channel
GoneRequests ==
    {Request("POST_CREATED", Post("o1", "c1", HighChannel1)),
     Request("POST_DELETED", Post("o1", "c1", HighChannel1)),
     Request("POST_EDITED", [Post("o1", "c1", HighChannel1) EXCEPT !.is_deleted = Some(TRUE)])}

\* the retraction lookup works or fails
GoneEnvs == {NominalEnv, [NominalEnv EXCEPT !.wdFail = TRUE]}

FanOutEnvs == {NominalEnv, [NominalEnv EXCEPT !.sendOk = {}]}

NextGone ==
    \/ \E req \in GoneRequests : Receive(req)
    \/ ManageOffer(GoneEnvs)
    \/ Complete
    \/ \E userIds \in RecipientLists, env \in FanOutEnvs : FanOutSends(userIds, "o1", env)
    \/ FanOutReceipts

SpecGone == Init /\ [][NextGone]_vars

----------------------------------------------------------------------------
(* C35 *)

\* The answers of a soft or a hard deletion
DeletionActions ==
    {"soft_deleted", "soft_deleted_via_edit", "ignored_deleted_because_in_favorites",
     "deleted", "deleted_via_create"}

\* The event in hand is an expired/deleted event that found the offer's row
\* and has been answered with a deletion
DeletionCompleted ==
    /\ request # None
    /\ response # None
    /\ GoneEvent
    /\ Get(response).existing # None
    /\ Get(response).status = 200
    /\ Get(response).action \in DeletionActions

\* The non-withdrawn receipts of the notifications about an offer
ActiveReceipts(offerId) ==
    {un \in users_notifications :
        /\ ~un.withdrawn
        /\ \E n \in notifications : n.id = un.notification_id /\ n.offer_id = offerId}

\* C35: once an expired/deleted event of a permitted channel has been
\* answered with a soft or a hard deletion, the offer has no non-withdrawn
\* receipt, also when a fan-out about the offer writes its receipts while
\* the event is handled and when the lookup of the retraction fails.
C35_NoActiveReceiptAfterDeletion ==
    DeletionCompleted => ActiveReceipts(ReqPost.offer_id) = {}

----------------------------------------------------------------------------
(* The keyword notification of a POST_CREATED: the match engine run on the *)
(* favorites table, and the fan-out to the users it returns                *)

\* const keywordMatches = matches.filter(m => m.matchType === 'keyword');
\* const keywordUids = keywordMatches.map(m => m.userId);
keywordUidsOf(matches) ==
    LET keywordMatches == SelectSeq(matches, LAMBDA m : m.matchType = "keyword")
    IN  [i \in DOMAIN keywordMatches |-> keywordMatches[i].userId]

\* if (post.title && projectId && accessToken) { ... } of the handler
keywordNotify(st, table, offer, env) ==
    LET keywordUids == keywordUidsOf(findUsersWithMatchingKeywords(table, offer))
        st1 == Call(st, "findUsersWithMatchingKeywords")
    IN  IF ~env.creds THEN st
        ELSE IF Len(keywordUids) > 0 /\ env.send_favorites_notifications
        THEN notifyUsersAboutOffer(st1, keywordUids, offer.offerId, env, KeywordOptions)
        ELSE st1

\* The offers of the keyword runs
KeywordOffers ==
    {offer \in MatchOffers :
        /\ offer.rawTitle \in {<<"iPhone", "15">>, <<"15">>}
        /\ offer.offerPrice = None /\ offer.offerCategory = None}

\* The saved searches of the keyword runs: a word and a phrase of two words
KeywordKeys == {<<"iphone">>, <<"iphone", "15">>}

\* u1 with each setting of the two favorites preferences, u2 with all on
KeywordUsersTables ==
    {[u \in Users |->
         [token_fcm |-> TRUE, superoffers |-> TRUE,
          favorites_products |-> IF u = "u1" THEN fp ELSE TRUE,
          favorites_searches |-> IF u = "u1" THEN fs ELSE TRUE]] :
        fp \in BOOLEAN, fs \in BOOLEAN}

KeywordEnvs == {NominalEnv, [NominalEnv EXCEPT !.send_favorites_notifications = FALSE]}

InitKeyword ==
    /\ offers = {}
    /\ favorites = {}
    /\ notifications = {}
    /\ users_notifications = {}
    /\ notifSeq = 0
    /\ users \in KeywordUsersTables
    /\ now = 0
    /\ request = None
    /\ response = None
    /\ inflight = [h \in Handlers |-> IdleHandler]

\* The keyword notification of one created offer
KeywordNotify(offer, env) ==
    /\ Idle
    /\ \E st \in {keywordNotify(St0, favorites, offer, env)} :
          /\ st.notifSeq <= MaxNotifSeq
          /\ notifications' = st.notifications
          /\ users_notifications' = st.users_notifications
          /\ notifSeq' = st.notifSeq
          /\ request' = Some(offer)
          /\ response' = Some([op |-> "keyword", env |-> env, sent |-> st.sent,
                               calls |-> st.calls, notificationId |-> st.notifSeq])
    /\ UNCHANGED <<inflight, offers, favorites, users, now>>

NextKeyword ==
    \/ \E uid \in Users, key \in KeywordKeys : AddFavorite(uid, "keyword", key, NoFilter)
    \/ \E offer \in KeywordOffers, env \in KeywordEnvs : KeywordNotify(offer, env)
    \/ \E userIds \in RecipientLists : NotifyUsersAboutOffer(userIds, "o1", NominalEnv)
    \/ Complete

SpecKeyword == InitKeyword /\ [][NextKeyword]_vars

----------------------------------------------------------------------------
(* C37 *)

\* The operation that has been carried out last
Answered(op) ==
    /\ response # None
    /\ "op" \in DOMAIN Get(response)
    /\ Get(response).op = op

\* The pushes of the dispatch to user u, and its receipts for u
PushesTo(u) == {m \in Get(response).sent : m.kind = "push" /\ m.uid = u}

ReceiptsOf(u) ==
    {un \in users_notifications :
        un.uid = u /\ un.notification_id = Get(response).notificationId}

\* C37: in the fan-out of a keyword match every user gets at most one push
\* and at most one receipt of the dispatch's notification, also when
\* several keyword favorites of the user match the offer.
C37_OnePushAndOneReceiptPerUser ==
    (Answered("keyword") /\ Get(response).sent # {})
    => \A u \in Users :
          /\ Cardinality(PushesTo(u)) <= 1
          /\ Cardinality(ReceiptsOf(u)) <= 1

----------------------------------------------------------------------------
(* C38 *)

\* C38: a keyword-match push goes only to users whose saved-search
\* preference (favorites.searches) is on, and a product-favorite push only
\* to users whose product-favorite preference (favorites.products) is on.
C38_PushOnlyWithTheRelevantPreference ==
    /\ Answered("keyword")
          => \A m \in Get(response).sent :
                m.kind = "push" => users[m.uid].favorites_searches
    /\ Answered("notify")
          => \A m \in Get(response).sent :
                m.kind = "push" => users[m.uid].favorites_products

----------------------------------------------------------------------------
(* C39 *)

\* The offer_id under which the handled event reads and writes
EventOfferId ==
    IF Get(response').existing # None THEN Get(Get(response').existing).offer_id
    ELSE ReqPost.offer_id

\* The pushes about the offer that the handled event delivered to devices
DeliveredPushes == {m \in Get(response').sent : m.kind \in {"push", "superoffer"}}

\* C39: every push an event delivers about an offer, a super-offer
\* broadcast included, leaves a non-withdrawn receipt of its recipient
\* under a notification of that offer, which a later expired/deleted event
\* withdraws and retracts from the device.
C39_EveryDeliveredPushHasAReceipt ==
    [][(Handled /\ Get(request).post # None /\ Get(response').status = 200)
       => \A m \in DeliveredPushes :
             \E un \in users_notifications' :
                /\ un.uid = m.uid
                /\ ~un.withdrawn
                /\ \E n \in notifications' :
                      n.id = un.notification_id /\ n.offer_id = EventOfferId]_vars

----------------------------------------------------------------------------
(* C40 *)

\* A push about the offer has been delivered to some user: a dispatch wrote
\* its per-user notification entries (written only when a send succeeded),
\* or the fan-out under way has a delivered push
PushDelivered(offerId) ==
    \/ \E n \in notifications :
          n.offer_id = offerId /\ n.id = 0 /\ n.created_at > now - NotifiedLookbackDays
    \/ /\ inflight[FanOutSlot].pc = "sent"
       /\ Get(inflight[FanOutSlot].req).offerId = offerId
       /\ Get(inflight[FanOutSlot].req).notified # {}

\* C40: an expired/deleted event soft-deletes an offer that nobody
\* favorites, as already notified, only if a push about the offer was
\* delivered to some user within the lookback; a fan-out none of whose sends
\* succeeded does not make the later deletion a soft one.
C40_AlreadyNotifiedMeansPushDelivered ==
    (DeletionCompleted /\ Get(response).action = "soft_deleted"
        /\ ~Favorited(ReqPost.offer_id))
    => PushDelivered(ReqPost.offer_id)

====
